---- MODULE Spec2Model ----
(***************************************************************************)
(* The cache store of augur (augur/common/cache_store.py): one UaModel     *)
(* object over one mongo collection.  A state is the collection, the       *)
(* object's staged list self.data, the clock, and a record of the last     *)
(* call with its outcome and the signals it sent.                          *)
(*                                                                         *)
(* Encoding.  A field of a document that is absent (or None) is 0; key     *)
(* values and payloads are positive.  A query clause that is absent is     *)
(* <<>>, a present one is <<v>>.  A ttl or limit argument of 0 stands for  *)
(* every falsy value of the Python code (None, timedelta(0), 0), which the *)
(* code does not tell apart.                                               *)
(***************************************************************************)
EXTENDS Integers, Sequences, FiniteSets, TLC

VARIABLES
    cfg,    \* the subclass policy: get_unique_key, get_ttl, clear_before_add, get_unique_type
    coll,   \* the mongo collection, in natural (insertion) order
    data,   \* self.data of the UaModel object
    now,    \* datetime.utcnow()
    call,   \* the last call made on the object, with its arguments
    res,    \* how that call ended: "ok" or the exception raised
    sent,   \* the signals that call sent
    failed_at,     \* the entry of the batch at which that call raised, 0 if none
    query_object,  \* the caller's query dict as the last load left it
    sprint_data,     \* the list of sprint snapshots the sprint fetcher collects
    given,           \* that list as it was when it was last aggregated
    aggregate_data,  \* what that aggregation returned
    kwargs,    \* the keyword arguments of the last UaSprintDataFetcher.validate_input
    fetcher,   \* team_id, sprint_id and get_history of the fetcher object
    verdict,   \* how that validate_input ended
    jira,      \* Jira: what search_issues returns for each jql at the moment
    request,   \* the last call of AugurJira.execute_jql and how far it has come
    sprints,     \* Jira: the abridged sprint objects of the team's board
    sprint_rev,  \* Jira: the revision of the contents sprint_info returns
    flows,       \* the calls of get_detailed_sprint_info_for_team under way
    lookup,      \* the last call of get_abridged_team_sprint and its outcome
    context,     \* api.__context, the default context
    got,         \* the last context passed to set_default_context, and
                 \* what the last get_default_context returned
    workflow,    \* the statuses and resolutions of a Workflow
    resolved,    \* the last call of Workflow.is_resolved and its result
    devstats,    \* a UaGithubDevStats object: prs, the two averages, dirty
    reported,    \* what the last as_dict of it returned
    issues,      \* the issues execute_jql returns to execute_jql_with_analysis
    analysis     \* the result of the last execute_jql_with_analysis

cacheVars == <<cfg, coll, data, now, call, res, sent, failed_at, query_object>>

aggVars == <<sprint_data, given, aggregate_data>>

fetchVars == <<kwargs, fetcher, verdict>>

jqlVars == <<jira, request>>

sprintVars == <<sprints, sprint_rev, flows, lookup>>

contextVars == <<context, got>>

workflowVars == <<workflow, resolved>>

githubVars == <<devstats, reported>>

analysisVars == <<issues, analysis>>

apiVars == <<jqlVars, sprintVars, contextVars, workflowVars, githubVars, analysisVars>>

\* what the cache store itself never touches
outside == <<aggVars, fetchVars, apiVars>>

vars == <<cacheVars, aggVars, fetchVars, apiVars>>

----------------------------------------------------------------------------
(* Bounds of the model *)

MaxTime == 3
MaxWriteTime == 1
MaxDocs == 2

\* The pull requests given to one UaGithubDevStats.
MaxPrs == 3

\* The issues of one analysis.
MaxIssues == 2

KeyVals == {1, 2}
Times == 0..MaxTime

(* pymongo sort directions *)
ASCENDING == 1
DESCENDING == -1

----------------------------------------------------------------------------
(* Documents *)

\* A caller's entry: a dict with the fields id and sprint_id.  Whichever of
\* the two is not the collection's unique key is an ordinary data field.
Entries == [id : {0} \cup KeyVals, sprint_id : KeyVals]

\* A dict as the caller hands it over: no _id, not yet decorated.
AsDict(e) == e @@ [oid |-> 0, storage_time |-> -1, storage_type |-> "absent"]

\* The caller's view of a document: its own fields only.
Strip(d) == [id |-> d.id, sprint_id |-> d.sprint_id]

StripAll(s) == [i \in 1..Len(s) |-> Strip(s[i])]

Range(s) == {s[i] : i \in 1..Len(s)}

Oids(s) == {s[i].oid : i \in 1..Len(s)}

\* A new ObjectId: one that no stored document and no dict still held in
\* self.data carries.
FreshOid(c, held) ==
    CHOOSE n \in 1..(Len(c) + Len(held) + 1) :
        /\ n \notin (Oids(c) \cup Oids(held))
        /\ \A m \in 1..(n - 1) : m \in (Oids(c) \cup Oids(held))

----------------------------------------------------------------------------
(* The storage backend: what pymongo does on the collection.  The unique   *)
(* index that UaModel.__init__ creates on get_unique_key() is part of it.  *)

Keyed == cfg.unique_key # "none"

\* The unique index: no other document than the one at position i (0: a new
\* document) has the key value of doc.  A missing field is indexed as null,
\* so two documents without the field collide as well.
IndexAllows(c, i, doc) ==
    Keyed => \A j \in 1..Len(c) :
                 j # i => c[j][cfg.unique_key] # doc[cfg.unique_key]

\* find_one_and_replace(filter, doc, upsert=True) and the legacy
\* update(filter, doc, upsert=True) with the filter {fld: v}: the first match
\* is replaced by doc and keeps its _id; with no match doc is inserted.
Upsert(c, fld, v, doc, held) ==
    LET hits == {i \in 1..Len(c) : c[i][fld] = v}
    IN  IF hits # {}
        THEN LET i == CHOOSE h \in hits : \A k \in hits : h <= k
                 new == [doc EXCEPT !.oid = c[i].oid]
             IN  IF doc.oid # 0 /\ doc.oid # c[i].oid
                 THEN [c |-> c, err |-> "WriteError"]
                 ELSE IF ~IndexAllows(c, i, new)
                 THEN [c |-> c, err |-> "DuplicateKeyError"]
                 ELSE [c |-> [c EXCEPT ![i] = new], err |-> "ok"]
        ELSE LET new == [doc EXCEPT
                           !.oid = IF doc.oid = 0 THEN FreshOid(c, held) ELSE doc.oid]
             IN  IF new.oid \in Oids(c) \/ ~IndexAllows(c, 0, new)
                 THEN [c |-> c, err |-> "DuplicateKeyError"]
                 ELSE [c |-> Append(c, new), err |-> "ok"]

\* insert_many(docs), ordered: documents are inserted one by one and the
\* first failure stops the batch, leaving the earlier ones inserted.
RECURSIVE InsertMany(_, _, _)
InsertMany(c, docs, i) ==
    IF i > Len(docs) THEN [c |-> c, err |-> "ok", at |-> 0]
    ELSE LET new == [docs[i] EXCEPT
                       !.oid = IF docs[i].oid = 0 THEN FreshOid(c, docs)
                               ELSE docs[i].oid]
         IN  IF new.oid \in Oids(c) \/ ~IndexAllows(c, 0, new)
             THEN [c |-> c, err |-> "BulkWriteError", at |-> i]
             ELSE InsertMany(Append(c, new), docs, i + 1)

----------------------------------------------------------------------------
(* UaModel *)

\* Mutant of decorate_data: a storage_time the dict already has is kept.
decorate_data_once(staged, t) ==
    [i \in 1..Len(staged) |->
        [staged[i] EXCEPT !.storage_time = IF @ = -1 THEN t ELSE @,
                          !.storage_type = cfg.unique_type]]

\* decorate_data: every staged dict gets the time of the call and the
\* collection's storage type.
decorate_data(staged, t) ==
    [i \in 1..Len(staged) |->
        [staged[i] EXCEPT !.storage_time = t, !.storage_type = cfg.unique_type]]

\* "if data: clear_data(); add_data(data)": the batch a save or update works
\* on is the argument when it is truthy, else what self.data already holds.
Staged(arg) == IF arg # <<>> THEN [i \in 1..Len(arg) |-> AsDict(arg[i])] ELSE data

RECURSIVE UpsertEach(_, _, _, _)

\* The field save() names in the filter of find_one_and_replace.
SaveFilterField == "id"

\* Mutant of UpdateFilterField: update() filters on "id" as save() does.
UpdateFilterFieldId == "id"

\* The field update() names in the filter of collection.update.
UpdateFilterField == cfg.unique_key

\* Mutant of UpsertEach: an exception undoes what the loop wrote before it.
UpsertEachRolledBack(c, docs, i, fld) ==
    IF i > Len(docs) THEN [c |-> c, err |-> "ok", at |-> 0]
    ELSE LET r == IF docs[i][cfg.unique_key] = 0 THEN [c |-> c, err |-> "KeyError"]
                  ELSE Upsert(c, fld, docs[i][cfg.unique_key], docs[i], docs)
         IN  IF r.err # "ok"
             THEN [c |-> SelectSeq(c, LAMBDA d : \A j \in 1..(i - 1) :
                                    [d EXCEPT !.oid = 0] # docs[j]),
                   err |-> r.err, at |-> i]
             ELSE UpsertEach(r.c, docs, i + 1, fld)

\* The loop of save() and update() over the batch: one upsert per dict, keyed
\* on d[unique_key]; an exception leaves the earlier upserts in place.
UpsertEach(c, docs, i, fld) ==
    IF i > Len(docs) THEN [c |-> c, err |-> "ok", at |-> 0]
    ELSE IF docs[i][cfg.unique_key] = 0 THEN [c |-> c, err |-> "KeyError", at |-> i]
    ELSE LET r == Upsert(c, fld, docs[i][cfg.unique_key], docs[i], docs)
         IN  IF r.err # "ok" THEN [c |-> r.c, err |-> r.err, at |-> i]
             ELSE UpsertEach(r.c, docs, i + 1, fld)

\* The keys a write reports in its signal.
KeysOf(docs) == [i \in 1..Len(docs) |-> docs[i][cfg.unique_key]]

Updated(fld, docs, n) ==
    [event |-> "cache_updated", cache_name |-> cfg.name,
     update_info |-> IF Keyed THEN <<fld, KeysOf(docs)>> ELSE <<>>,
     key_count |-> n]

EmptyQuery == [sprint_id |-> <<>>, storage_time |-> <<>>, storage_type |-> <<>>]

\* The record of a call: the operation, the time of the call, its arguments.
Call(op, args) == [op |-> op, at |-> now] @@ args

NoArgs == [batch |-> <<>>, query |-> EmptyQuery, limit |-> 0, order_by |-> "none",
           sort_order |-> DESCENDING, override_ttl |-> 0]

\* Mutant of Cleared: the collection is never emptied before the write.
NotCleared(c) == c

\* "if self.clear_before_add(): self.get_collection().remove()"
Cleared(c) == IF cfg.clear_before_add THEN <<>> ELSE c

\* What save() writes: after the clearing, one upsert per dict on a keyed
\* collection and one insert_many on an unkeyed one.
SaveWrites(c, docs) ==
    IF Keyed THEN UpsertEach(Cleared(c), docs, 1, SaveFilterField)
    ELSE InsertMany(Cleared(c), docs, 1)

\* A refused save() that had emptied the collection before it raised.
RefusedAfterClear(c) == Cleared(c)

\* 'if not self.data: raise ValueError("No data found to save")': the
\* collection as the refused save() leaves it.
Refused(c) == c

\* save(data), on the collection as c
save(c, arg) ==
    /\ call' = Call("save", [NoArgs EXCEPT !.batch = arg])
    /\ IF Staged(arg) = <<>>
       THEN /\ res' = "ValueError: No data found to save"
            /\ data' = <<>>
            /\ coll' = Refused(c)
            /\ sent' = <<>>
            /\ failed_at' = 0
       ELSE \E docs \in {decorate_data(Staged(arg), now)} :
            \E r \in {SaveWrites(c, docs)} :
                /\ Len(r.c) <= MaxDocs
                /\ data' = docs
                /\ coll' = r.c
                /\ res' = r.err
                /\ failed_at' = r.at
                /\ sent' = IF r.err = "ok"
                           THEN <<Updated(SaveFilterField, docs, Len(docs))>>
                           ELSE <<>>
    /\ UNCHANGED <<cfg, now, query_object>>

Save(arg) == save(coll, arg) /\ UNCHANGED outside

\* Mutant of UpdateRefusal: the batch is looked at before the unique key.
UpdateRefusalDataFirst(arg) ==
    IF Staged(arg) = <<>> THEN "ValueError: No data found to update"
    ELSE IF ~Keyed THEN "ValueError: no unique index"
    ELSE "ok"

\* The checks update() makes before it writes, in the order it makes them:
\* the exception it raises, or "ok".
UpdateRefusal(arg) ==
    IF ~Keyed THEN "ValueError: no unique index"
    ELSE IF Staged(arg) = <<>> THEN "ValueError: No data found to update"
    ELSE "ok"

\* An update() that inserted each dict instead of upserting it.
UpdateWritesInsert(c, docs) == InsertMany(c, docs, 1)

\* What update() writes: one upsert per dict.
UpdateWrites(c, docs) == UpsertEach(c, docs, 1, UpdateFilterField)

\* update(data)
update(arg) ==
    /\ call' = Call("update", [NoArgs EXCEPT !.batch = arg])
    /\ IF UpdateRefusal(arg) # "ok"
       THEN /\ res' = UpdateRefusal(arg)
            /\ data' = IF Keyed THEN Staged(arg) ELSE data
            /\ UNCHANGED coll
            /\ sent' = <<>>
            /\ failed_at' = 0
       ELSE \E docs \in {decorate_data(Staged(arg), now)} :
            \E r \in {UpdateWrites(coll, docs)} :
                /\ Len(r.c) <= MaxDocs
                /\ data' = docs
                /\ coll' = r.c
                /\ res' = r.err
                /\ failed_at' = r.at
                /\ sent' = IF r.err = "ok"
                           THEN <<Updated(UpdateFilterField, docs, Len(docs))>>
                           ELSE <<>>
    /\ UNCHANGED <<cfg, now, query_object>>

Update(arg) == update(arg) /\ UNCHANGED outside

\* empty(): delete_many({})
Empty ==
    /\ call' = Call("empty", NoArgs)
    /\ coll' = <<>>
    /\ res' = "ok"
    /\ sent' = <<>>
    /\ failed_at' = 0
    /\ UNCHANGED <<cfg, data, now, query_object, outside>>

\* clear_data()
clear_data ==
    /\ data' = <<>>
    /\ call' = Call("clear_data", NoArgs)
    /\ res' = "ok"
    /\ sent' = <<>>
    /\ failed_at' = 0
    /\ UNCHANGED <<cfg, coll, now, query_object, outside>>

\* Time passes between calls.
Tick(until) ==
    /\ now < until
    /\ now' = now + 1
    /\ UNCHANGED <<cfg, coll, data, call, res, sent, failed_at, query_object, outside>>

----------------------------------------------------------------------------
(* load *)

\* A query object: one optional clause per field; storage_time is a range
\* clause {"$gte": t}, the others are equalities.
Queries ==
    [sprint_id : {<<>>, <<1>>},
     storage_time : {<<>>, <<2>>},
     storage_type : {<<>>}]

\* Mutant of Matches: the range clause on storage_time is $gt.
MatchesStrict(d, q) ==
    \A f \in DOMAIN q :
        q[f] # <<>> => /\ f \in DOMAIN d
                       /\ IF f = "storage_time" THEN d[f] > q[f][1] ELSE d[f] = q[f][1]

\* collection.find(query): the documents that satisfy every clause; a
\* document without the field of a clause does not satisfy it.
Matches(d, q) ==
    \A f \in DOMAIN q :
        q[f] # <<>> => /\ f \in DOMAIN d
                       /\ IF f = "storage_time" THEN d[f] >= q[f][1] ELSE d[f] = q[f][1]

Find(c, q) == SelectSeq(c, LAMBDA d : Matches(d, q))

\* Mutant of EffectiveTtl: the override is ignored.
EffectiveTtlConfigured(override_ttl) == cfg.ttl

\* "if not override_ttl: ttl = self.get_ttl() else: ttl = override_ttl"
EffectiveTtl(override_ttl) == IF override_ttl = 0 THEN cfg.ttl ELSE override_ttl

\* Mutant of EffectiveQuery: the ttl clause is $gt where the code has $gte.
EffectiveQueryStrict(q, ttl, t) ==
    LET q1 == IF ttl # 0 /\ q.storage_time = <<>>
              THEN [q EXCEPT !.storage_time = <<t - ttl + 1>>] ELSE q
    IN  IF cfg.unique_type # "none"
        THEN [q1 EXCEPT !.storage_type = <<cfg.unique_type>>] ELSE q1

\* Mutant of EffectiveQuery: a storage_type clause of the caller is kept.
EffectiveQueryCallerType(q, ttl, t) ==
    LET q1 == IF ttl # 0 /\ q.storage_time = <<>>
              THEN [q EXCEPT !.storage_time = <<t - ttl>>] ELSE q
    IN  IF cfg.unique_type # "none" /\ q.storage_type = <<>>
        THEN [q1 EXCEPT !.storage_type = <<cfg.unique_type>>] ELSE q1

\* The query load() sends: the caller's clauses, the ttl clause when a ttl
\* applies and the caller gave no storage_time clause, and the storage_type
\* clause when the collection has a unique type.
EffectiveQuery(q, ttl, t) ==
    LET q1 == IF ttl # 0 /\ q.storage_time = <<>>
              THEN [q EXCEPT !.storage_time = <<t - ttl>>] ELSE q
    IN  IF cfg.unique_type # "none"
        THEN [q1 EXCEPT !.storage_type = <<cfg.unique_type>>] ELSE q1

\* cursor.sort(order_by, sort_order): every order of the documents that is
\* sorted on the field; documents that tie on it come in any order.
InOrder(a, b, sort_order) ==
    IF sort_order = DESCENDING THEN a >= b ELSE a <= b

\* Mutant of Sorted: the sort is dropped.
Unsorted(found, order_by, sort_order) == {found}

Sorted(found, order_by, sort_order) ==
    IF order_by = "none" THEN {found}
    ELSE LET n == Len(found)
             perms == {p \in [1..n -> 1..n] : \A i, j \in 1..n : i # j => p[i] # p[j]}
         IN  {[i \in 1..n |-> found[p[i]]] : p \in
                {p \in perms : \A i \in 1..(n - 1) :
                    InOrder(found[p[i]][order_by], found[p[i + 1]][order_by], sort_order)}}

\* "if limit: cursor.limit(1)"
CursorLimit(limit) == 1

Capped(s, limit) ==
    IF limit # 0 /\ Len(s) > CursorLimit(limit) THEN SubSeq(s, 1, CursorLimit(limit))
    ELSE s

\* Mutant of Loaded: cache_date is taken from the last returned entry.
LoadedLastDate(ttl, q, result) ==
    [event |-> "cache_item_loaded", ttl |-> ttl, query_object |-> q,
     cache_name |-> cfg.name, cache_date |-> result[Len(result)].storage_time,
     key_count |-> Len(result)]

\* The cache_item_loaded signal of load().
Loaded(ttl, q, result) ==
    [event |-> "cache_item_loaded", ttl |-> ttl, query_object |-> q,
     cache_name |-> cfg.name, cache_date |-> result[1].storage_time,
     key_count |-> Len(result)]

\* "if not query_object: query_object = {}" gives load() a dict of its own
\* when the caller's is empty (or None); any other dict of the caller is the
\* one the two query_object.update(...) write to.
Updated_query(q, eq) == IF \A f \in DOMAIN q : q[f] = <<>> THEN q ELSE eq

\* load(query_object, limit, order_by, sort_order, override_ttl)
load(q, limit, order_by, sort_order, override_ttl) ==
    \E eq \in {EffectiveQuery(q, EffectiveTtl(override_ttl), now)} :
    \E s \in Sorted(Find(coll, eq), order_by, sort_order) :
    \E result \in {Capped(s, limit)} :
            /\ data' = result
            /\ sent' = IF result # <<>>
                       THEN <<Loaded(EffectiveTtl(override_ttl), eq, result)>>
                       ELSE <<>>
            /\ call' = Call("load", [batch |-> <<>>, query |-> q, limit |-> limit,
                                      order_by |-> order_by, sort_order |-> sort_order,
                                      override_ttl |-> override_ttl])
            /\ res' = "ok"
            /\ failed_at' = 0
            /\ query_object' = Updated_query(q, eq)
            /\ UNCHANGED <<cfg, coll, now>>

Load(q, limit, order_by, sort_order, override_ttl) ==
    load(q, limit, order_by, sort_order, override_ttl) /\ UNCHANGED outside

----------------------------------------------------------------------------
(* The sprint aggregator: UaSprintDataFetcher._aggregate_sprint_history_data *)
(* (augur/fetchers/sprint.py).  A snapshot is the sprint object of Jira: its *)
(* 'sprint' part with the id and its 'contents'.  A point field of the       *)
(* contents is <<>> when the key is absent and <<t>> when its 'text' is t;   *)
(* an issue list is the sequence of the story points of its issues, 0 for    *)
(* an issue without points.                                                  *)

MaxSprints == 3

SprintIds == 1..3

\* The text 'null' that Jira puts where a sum has no value.
NullText == -1

point_keys ==
    <<"completedIssuesEstimateSum", "issuesNotCompletedEstimateSum",
      "puntedIssuesEstimateSum", "pointsAddedDuringSprintSum">>

issue_keys ==
    <<"completedIssues", "issuesNotCompletedInCurrentSprint", "puntedIssues",
      "issueKeysAddedDuringSprint">>

\* The snapshot of sprint id: completed is its completedIssuesEstimateSum
\* field, added the issues added during the sprint.
Snapshot(id, completed, added) ==
    [sprint |-> [id |-> id],
     contents |->
        [completedIssuesEstimateSum |-> completed,
         issuesNotCompletedEstimateSum |-> <<id>>,
         puntedIssuesEstimateSum |-> <<NullText>>,
         pointsAddedDuringSprintSum |-> <<>>,
         completedIssues |-> [i \in 1..id |-> 1],
         issuesNotCompletedInCurrentSprint |-> <<2>>,
         puntedIssues |-> <<>>,
         issueKeysAddedDuringSprint |-> added]]

\* The issues added during a sprint, each as its customfield_10002: <<>> when
\* the issue has none or has null there, else the number in a tuple.
AddedIssues == {<<>>, << <<>>, <<3>> >>}

Snapshots ==
    UNION {{Snapshot(id, c, a) : c \in {<<NullText>>, <<10 * id>>}, a \in AddedIssues}
           \cup {Snapshot(id, <<>>, <<>>)} : id \in SprintIds}

Reverse(s) == [i \in 1..Len(s) |-> s[Len(s) + 1 - i]]

\* An issue without points counted as one point.
PointsFieldUnit(issue_key) == IF issue_key = <<>> THEN 1 ELSE issue_key[1]

\* "float(common.deep_get(issue_key, 'fields', 'customfield_10002') or 0.0)"
PointsField(issue_key) == IF issue_key = <<>> THEN 0 ELSE issue_key[1]

\* Mutant of Sum: the added issues are counted, not their points summed.
SumCount(s) == Len(s)

\* "added_during_sprint_points += ..." over the issues
RECURSIVE Sum(_)
Sum(s) == IF s = <<>> THEN 0 ELSE PointsField(Head(s)) + Sum(Tail(s))

\* "float(orig_current if orig_current != 'null' else 0)"
Float(text) == IF text # NullText THEN text ELSE 0

RECURSIVE Gcd(_, _)
Gcd(a, b) == IF b = 0 THEN a ELSE Gcd(b, a % b)

\* The float a / b, kept exact as a fraction in lowest terms.
Ratio(a, b) == <<a \div Gcd(a, b), b \div Gcd(a, b)>>

\* Mutant of Running: the running sum continues from the previous sprint's
\* actual value.
RunningFromActual(recs, last_sprint_id, key, idx, current) ==
    IF idx = 0
    THEN [actual |-> current, running_avg |-> Ratio(current, 1), running_sum |-> current]
    ELSE LET running_sum == recs[last_sprint_id][key].actual + current
         IN  [actual |-> current, running_avg |-> Ratio(running_sum, idx + 1),
              running_sum |-> running_sum]

\* Mutant of Running: the record keeps the running sum as the actual value.
RunningSumAsActual(recs, last_sprint_id, key, idx, current) ==
    IF idx = 0
    THEN [actual |-> current, running_avg |-> Ratio(current, 1), running_sum |-> current]
    ELSE LET running_sum == recs[last_sprint_id][key].running_sum + current
         IN  [actual |-> running_sum, running_avg |-> Ratio(running_sum, idx + 1),
              running_sum |-> running_sum]

\* The body of the two "for key in ..." loops: the triple stored for a key.
Running(recs, last_sprint_id, key, idx, current) ==
    IF idx = 0
    THEN [actual |-> current, running_avg |-> Ratio(current, 1), running_sum |-> current]
    ELSE LET running_sum == recs[last_sprint_id][key].running_sum + current
         IN  [actual |-> current, running_avg |-> Ratio(running_sum, idx + 1),
              running_sum |-> running_sum]

\* "for key in point_keys": one_sprint['contents'][key]['text'] raises
\* KeyError when the key is not there.
RECURSIVE PointFields(_, _, _, _, _, _)
PointFields(recs, id, last_sprint_id, idx, contents, k) ==
    IF k > Len(point_keys) THEN [recs |-> recs, err |-> "ok"]
    ELSE IF contents[point_keys[k]] = <<>> THEN [recs |-> recs, err |-> "KeyError"]
    ELSE PointFields(
            [recs EXCEPT ![id] =
                (point_keys[k] :> Running(recs, last_sprint_id, point_keys[k], idx,
                                          Float(contents[point_keys[k]][1]))) @@ @],
            id, last_sprint_id, idx, contents, k + 1)

\* "for key in issue_keys"
RECURSIVE IssueFields(_, _, _, _, _, _)
IssueFields(recs, id, last_sprint_id, idx, contents, k) ==
    IF k > Len(issue_keys) THEN recs
    ELSE IssueFields(
            [recs EXCEPT ![id] =
                (issue_keys[k] :> Running(recs, last_sprint_id, issue_keys[k], idx,
                                          Len(contents[issue_keys[k]]))) @@ @],
            id, last_sprint_id, idx, contents, k + 1)

NoAggregate == [asc_order |-> <<>>, recs |-> <<>>]

\* "for idx, one_sprint in enumerate(asc_sprint_data)", from its i-th round
\* on: asc is the reversed list, whose dicts the loop changes in place.
RECURSIVE AggregateFrom(_, _, _, _)
AggregateFrom(asc, i, agg, last_id) ==
    IF i > Len(asc) THEN [asc |-> asc, agg |-> agg, err |-> "ok"]
    ELSE LET one_sprint == asc[i]
             id == one_sprint.sprint.id
             recs == IF id \in DOMAIN agg.recs THEN agg.recs
                     ELSE (id :> [info |-> one_sprint.sprint]) @@ agg.recs
             contents == [one_sprint.contents EXCEPT
                            !.pointsAddedDuringSprintSum =
                                <<Sum(one_sprint.contents.issueKeysAddedDuringSprint)>>]
             asc1 == [asc EXCEPT ![i] = [one_sprint EXCEPT !.contents = contents]]
             p == PointFields(recs, id, last_id, i - 1, contents, 1)
         IN  IF p.err # "ok" THEN [asc |-> asc1, agg |-> NoAggregate, err |-> p.err]
             ELSE AggregateFrom(asc1, i + 1,
                     [asc_order |-> Append(agg.asc_order, id),
                      recs |-> IssueFields(p.recs, id, last_id, i - 1, contents, 1)],
                     id)

\* _aggregate_sprint_history_data(sprint_data): what it returns or raises,
\* and the caller's list as the call leaves it.
aggregate_sprint_history_data(list) ==
    LET r == AggregateFrom(Reverse(list), 1, NoAggregate, 0)
    IN  [sprint_data |-> Reverse(r.asc), err |-> r.err,
         asc_order |-> r.agg.asc_order, recs |-> r.agg.recs]

NotAggregated == [err |-> "none", asc_order |-> <<>>, recs |-> <<>>]

AggIdle ==
    /\ sprint_data = <<>>
    /\ given = <<>>
    /\ aggregate_data = NotAggregated

\* "to_calculate.append(s['team_sprint_data'])" in _fetch
Collect(s) ==
    /\ Len(sprint_data) < MaxSprints
    /\ sprint_data' = Append(sprint_data, s)
    /\ UNCHANGED <<given, aggregate_data, cacheVars, fetchVars, apiVars>>

\* "aggregate_data = self._aggregate_sprint_history_data(to_calculate)"
Aggregate ==
    \E r \in {aggregate_sprint_history_data(sprint_data)} :
        /\ given' = sprint_data
        /\ sprint_data' = r.sprint_data
        /\ aggregate_data' = [err |-> r.err, asc_order |-> r.asc_order, recs |-> r.recs]
        /\ UNCHANGED <<cacheVars, fetchVars, apiVars>>

\* The list as get_detailed_sprint_list_for_team gave it back unsorted.
AsReturned(list, descending) == list

\* "sorted(sprintdict_list, SORTKEYS[sort_by], reverse=descending)" with
\* sort_by_end_date: the sort asks only whether the function is below 0, that
\* is whether one endDate is before the other, and keeps sprints of one
\* endDate in their order.
SortedByEndDate(list, descending) ==
    LET n == Len(list)
        Before(a, b) == IF descending THEN a.sprint.endDate > b.sprint.endDate
                        ELSE a.sprint.endDate < b.sprint.endDate
        p == CHOOSE q \in [1..n -> 1..n] :
                 \A i, j \in 1..n :
                     i < j => \/ Before(list[q[i]], list[q[j]])
                              \/ /\ list[q[i]].sprint.endDate = list[q[j]].sprint.endDate
                                 /\ q[i] < q[j]
    IN  [i \in 1..n |-> list[p[i]]]

\* _fetch with get_history: the sprints of get_detailed_sprint_list_for_team,
\* sorted with its defaults, are what _aggregate_sprint_history_data is given.
AggregateHistory ==
    /\ aggregate_data = NotAggregated
    /\ \E sprints_sorted \in {SortedByEndDate(sprint_data, TRUE)} :
       \E r \in {aggregate_sprint_history_data(sprints_sorted)} :
          /\ given' = sprints_sorted
          /\ sprint_data' = r.sprint_data
          /\ aggregate_data' = [err |-> r.err, asc_order |-> r.asc_order, recs |-> r.recs]
    /\ UNCHANGED <<cacheVars, fetchVars, apiVars>>

\* The next history request starts with a list of its own; what the last
\* aggregation was given and returned stays on record.
NextRequest ==
    /\ sprint_data # <<>>
    /\ sprint_data' = <<>>
    /\ UNCHANGED <<given, aggregate_data, cacheVars, fetchVars, apiVars>>

\* The same, with the record of the last aggregation dropped.
NewRequest ==
    /\ aggregate_data # NotAggregated
    /\ sprint_data' = <<>>
    /\ given' = <<>>
    /\ aggregate_data' = NotAggregated
    /\ UNCHANGED <<cacheVars, fetchVars, apiVars>>

----------------------------------------------------------------------------
(* UaSprintDataFetcher.validate_input.  A keyword argument that is not       *)
(* passed is "absent"; the values are written as Python writes them.         *)

SprintConsts == {"SPRINT_LAST_COMPLETED", "SPRINT_CURRENT"}

ArgSets ==
    [team_id : {"absent", "None", "", "hb", "b2b"},
     sprint_id : {"absent", "None", "41", "42"} \cup SprintConsts,
     get_history : {"absent", "None", "False", "True"}]

\* "args[k] if k in args else default"
ArgOr(a, k, default) == IF a[k] # "absent" THEN a[k] ELSE default

\* bool(v) of the values above
Truthy(v) == v \notin {"None", "", "False"}

\* Mutant of Refusal: the history check looks at the sprint id in effect, not
\* at whether the argument was passed.
RefusalBySprintInEffect(a, team_id, sprint_id, get_history) ==
    IF ~Truthy(team_id) /\ sprint_id \notin SprintConsts
    THEN "LookupError: specific sprint without team"
    ELSE IF Truthy(get_history) /\ sprint_id \notin SprintConsts
    THEN "LookupError: history with sprint"
    ELSE IF Truthy(get_history) /\ ~Truthy(team_id)
    THEN "LookupError: history without team"
    ELSE "True"

\* The three checks of validate_input in their order: what it raises, or
\* the True it returns.
Refusal(a, team_id, sprint_id, get_history) ==
    IF ~Truthy(team_id) /\ sprint_id \notin SprintConsts
    THEN "LookupError: specific sprint without team"
    ELSE IF Truthy(get_history) /\ a.sprint_id # "absent"
    THEN "LookupError: history with sprint"
    ELSE IF Truthy(get_history) /\ ~Truthy(team_id)
    THEN "LookupError: history without team"
    ELSE "True"

FetchIdle ==
    /\ kwargs = [team_id |-> "absent", sprint_id |-> "absent", get_history |-> "absent"]
    /\ fetcher = [team_id |-> "None", sprint_id |-> "None", get_history |-> "None"]
    /\ verdict = "none"

\* validate_input(**a)
validate_input(a) ==
    \E f \in {[team_id |-> ArgOr(a, "team_id", "None"),
               sprint_id |-> ArgOr(a, "sprint_id", "SPRINT_LAST_COMPLETED"),
               get_history |-> ArgOr(a, "get_history", "False")]} :
        /\ kwargs' = a
        /\ fetcher' = f
        /\ verdict' = Refusal(a, f.team_id, f.sprint_id, f.get_history)
        /\ UNCHANGED <<cacheVars, aggVars, apiVars>>

----------------------------------------------------------------------------
(* AugurJira.execute_jql over the cache of result sets (UaCachedResultSets,  *)
(* reached through api.get_cached_data and api.cache_data).  Time is counted *)
(* in hours.  A result of search_issues is a list of issues: its length and  *)
(* the revision of its content (0 for the empty list).                       *)

\* get_ttl() of UaCachedResultSets, in hours
ResultSetTtl == 2

\* the override_ttl execute_jql passes, in hours
JqlTtl == 2

\* "if len(results_json) < 100"
CacheableBelow == 100

Jqls == {"a", "b"}

\* hashlib.md5(jql).hexdigest(), by its first eight digits
Md5(jql) == CASE jql = "a" -> "0cc175b9" [] jql = "b" -> "92eb5ffe"

\* "max_results=500", the default of execute_jql
DefaultMaxResults == 500

\* The values of max_results that are passed; with 0 only the count is asked.
MaxResultsArgs == {0, CacheableBelow \div 2, DefaultMaxResults}

\* A value of expand is the set of the fields it names; None and anything
\* that is not a string count as the empty string.
ExpandArgs == {{}, {"changelog"}}

NoIssues == [len |-> 0, rev |-> 0, changelog |-> FALSE]

\* The issues Jira has for a jql, as it gives them without a changelog.
Results ==
    {NoIssues} \cup [len : {CacheableBelow - 1, CacheableBelow}, rev : {1, 2},
                     changelog : {FALSE}]

\* "if include_changelog and expand.find('changelog') == -1: expand += ...
\* elif not include_changelog and expand.find('changelog') >= 0: expand =
\* expand.replace('changelog', '')"
Expanded(expand, include_changelog) ==
    IF include_changelog THEN expand \cup {"changelog"} ELSE expand \ {"changelog"}

\* jira.search_issues(jql, expand=expand, maxResults=max_results) over the
\* issues Jira has: at most max_results of them, each with its changelog
\* when expand names it.
Searched(found, expand, max_results) ==
    LET n == IF found.len < max_results THEN found.len ELSE max_results
    IN  [len |-> n,
         rev |-> IF n = 0 THEN 0 ELSE found.rev,
         changelog |-> n > 0 /\ "changelog" \in expand]

\* The policy of UaCachedResultSets.
ResultSetConfig ==
    [name |-> "result_cache", unique_key |-> "none", ttl |-> ResultSetTtl,
     clear_before_add |-> FALSE, unique_type |-> "none"]

\* Nothing returned (yet).
NotReturned == [len |-> -1, rev |-> 0, changelog |-> FALSE]

JqlIdle ==
    /\ jira = [j \in Jqls |-> NoIssues]
    /\ request = [jql |-> "none", pc |-> "done", searched |-> 0,
                  returned |-> NotReturned, at |-> 0, expand |-> {},
                  include_changelog |-> FALSE, max_results |-> DefaultMaxResults]

\* load_from_key(key, override_ttl)
load_from_key(key, override_ttl) ==
    load([key |-> <<key>>, storage_time |-> <<>>, storage_type |-> <<>>],
         0, "none", DESCENDING, override_ttl)

\* A save_with_key that removed nothing first.
NotRemoved(c, key) == c

\* "result_cache.remove({'key': key})"
Removed(c, key) == SelectSeq(c, LAMBDA d : d.key # key)

\* save_with_key(data, key)
save_with_key(document, key) ==
    save(Removed(coll, key), <<[data |-> document.data, key |-> key]>>)

\* Mutant of IsMiss: the cached result is never used.
IsMissAlways(result) == TRUE

\* "if not result"
IsMiss(result) == result = <<>>

\* Mutant of Cacheable: the test on the length is the wrong way round.
CacheableFrom(results_json) == results_json.len >= CacheableBelow

\* "if len(results_json) < 100"
Cacheable(results_json) == results_json.len < CacheableBelow

\* execute_jql(jql, expand, include_changelog, max_results) up to "if not
\* result": the cache is asked under the md5 of the jql, and on a hit
\* result[0]['data'] is returned.
execute_jql(jql, expand, include_changelog, max_results) ==
    /\ request.pc = "done"
    /\ load_from_key(Md5(jql), JqlTtl)
    /\ request' = IF IsMiss(data')
                  THEN [jql |-> jql, pc |-> "miss", searched |-> 0,
                        returned |-> NotReturned, at |-> now, expand |-> expand,
                        include_changelog |-> include_changelog,
                        max_results |-> max_results]
                  ELSE [jql |-> jql, pc |-> "done", searched |-> 0,
                        returned |-> data'[1].data, at |-> now, expand |-> expand,
                        include_changelog |-> include_changelog,
                        max_results |-> max_results]
    /\ UNCHANGED <<jira, aggVars, fetchVars, sprintVars, contextVars, workflowVars,
                   githubVars, analysisVars>>

\* The rest of execute_jql after a miss: search_issues, cache_data when the
\* result is short enough, and the return of results_json.
search_issues ==
    /\ request.pc = "miss"
    /\ \E results_json \in
            {Searched(jira[request.jql],
                      Expanded(request.expand, request.include_changelog),
                      request.max_results)} :
          /\ IF Cacheable(results_json)
             THEN save_with_key([data |-> results_json], Md5(request.jql))
             ELSE UNCHANGED cacheVars
          /\ request' = [request EXCEPT !.pc = "done", !.searched = 1,
                                        !.returned = results_json, !.at = now]
    /\ UNCHANGED <<jira, aggVars, fetchVars, sprintVars, contextVars, workflowVars,
                   githubVars, analysisVars>>

\* Jira's issues change.
JiraChanges ==
    /\ \E j \in Jqls, r \in Results : jira' = [jira EXCEPT ![j] = r]
    /\ jira' # jira
    /\ UNCHANGED <<request, cacheVars, aggVars, fetchVars, sprintVars, contextVars, workflowVars,
                   githubVars, analysisVars>>

----------------------------------------------------------------------------
(* The sprint lookup, api.get_abridged_team_sprint, and the sprint fetcher's *)
(* get_detailed_sprint_info_for_team over the cache of team sprint data      *)
(* (UaTeamSprintData).  The id of a sprint is a positive number and the      *)
(* SPRINT_XXX constants are numbers below zero.  An abridged sprint object   *)
(* has its id, its sequence, its state and, as overdue, whether it has the   *)
(* key 'overdue'.  The full sprint object of sprint_info is its id, its      *)
(* state and the revision of its contents.                                   *)

SPRINT_LAST_COMPLETED == -1
SPRINT_BEFORE_LAST_COMPLETED == -2
SPRINT_CURRENT == -3

\* None, where a sprint object is expected
NoSprint == [id |-> 0, sequence |-> 0, state |-> "None", overdue |-> FALSE]

\* The sprint_id argument: a number (an id or a constant), or a sprint object.
AsId(n) == [dict |-> NoSprint, id |-> n]

AsObject(sprint) == [dict |-> sprint, id |-> 0]

\* sorted(sprints, key=get_key, reverse=True): descending by sequence, equal
\* sequences in their given order.
SortedBySequence(list) ==
    LET n == Len(list)
        p == CHOOSE q \in [1..n -> 1..n] :
                 \A i, j \in 1..n :
                     i < j => \/ list[q[i]].sequence > list[q[j]].sequence
                              \/ /\ list[q[i]].sequence = list[q[j]].sequence
                                 /\ q[i] < q[j]
    IN  [i \in 1..n |-> list[p[i]]]

\* The loop for SPRINT_LAST_COMPLETED: an overdue active sprint is kept while
\* the loop goes on, the first closed one ends it.
RECURSIVE LastCompleted(_, _, _)
LastCompleted(s, i, sprint) ==
    IF i > Len(s) THEN sprint
    ELSE IF s[i].state = "CLOSED" THEN s[i]
    ELSE IF s[i].state = "ACTIVE" /\ s[i].overdue THEN LastCompleted(s, i + 1, s[i])
    ELSE LastCompleted(s, i + 1, sprint)

\* The loop for SPRINT_CURRENT: the first active sprint, or None.
FirstActive(s) ==
    IF \E i \in 1..Len(s) : s[i].state = "ACTIVE"
    THEN s[CHOOSE i \in 1..Len(s) :
               s[i].state = "ACTIVE" /\ \A j \in 1..(i - 1) : s[j].state # "ACTIVE"]
    ELSE NoSprint

\* The loop for an id: the first sprint with that id, or None.
FirstWithId(s, id) ==
    IF \E i \in 1..Len(s) : s[i].id = id
    THEN s[CHOOSE i \in 1..Len(s) : s[i].id = id /\ \A j \in 1..(i - 1) : s[j].id # id]
    ELSE NoSprint

\* The loop for SPRINT_BEFORE_LAST_COMPLETED: the second closed sprint.
BeforeLastCompleted(s) ==
    LET closed == SelectSeq(s, LAMBDA x : x.state = "CLOSED")
    IN  IF Len(closed) >= 2 THEN closed[2] ELSE NoSprint

\* get_abridged_team_sprint(team_id, sprint_id), on the team's sprint list
get_abridged_team_sprint(list, sprint_id) ==
    LET s == SortedBySequence(list)
    IN  IF sprint_id = AsId(SPRINT_LAST_COMPLETED) THEN LastCompleted(s, 1, NoSprint)
        ELSE IF sprint_id = AsId(SPRINT_BEFORE_LAST_COMPLETED) THEN BeforeLastCompleted(s)
        ELSE IF sprint_id = AsId(SPRINT_CURRENT)
        THEN FirstActive(s)
        ELSE IF sprint_id.dict # NoSprint THEN sprint_id.dict
        ELSE FirstWithId(s, sprint_id.id)

NotLookedUp == [sprint_id |-> AsId(0), sprint |-> NoSprint, raised |-> "none"]

\* A call of the lookup: what it returns, and that it raises nothing.
Lookup(sprint_id) ==
    /\ lookup' = [sprint_id |-> sprint_id,
                  sprint |-> get_abridged_team_sprint(sprints, sprint_id),
                  raised |-> "none"]
    /\ UNCHANGED <<sprints, sprint_rev, flows, cacheVars, aggVars, fetchVars,
                   jqlVars, contextVars, workflowVars,
                   githubVars, analysisVars>>

\* The policy of UaTeamSprintData: keyed on sprint_id, no ttl.
TeamSprintConfig ==
    [name |-> "teamstats", unique_key |-> "sprint_id", ttl |-> 0,
     clear_before_add |-> FALSE, unique_type |-> "none"]

Procs == {1, 2}

Revs == {1, 2}

\* None, where the full sprint object or the team stats are expected
NoSprintOb == [id |-> 0, state |-> "None", rev |-> 0]

NoStats == [sprint_id |-> 0, team_sprint_data |-> NoSprintOb]

\* The team stats as the caller sees them, in the cache or fresh.
TeamStats(d) == [sprint_id |-> d.sprint_id, team_sprint_data |-> d.team_sprint_data]

NoFlow ==
    [pc |-> "idle", sprint_id |-> 0, force_update |-> FALSE,
     sprint_abridged |-> NoSprint, sprint_ob |-> NoSprintOb,
     returned |-> NoStats, raised |-> "none"]

SprintIdle ==
    /\ sprints = <<>>
    /\ sprint_rev = 1
    /\ flows = [p \in Procs |-> NoFlow]
    /\ lookup = NotLookedUp

\* A fetcher made with force_update is asked for a sprint: the lookup of the
\* abridged sprint object and "if not sprint_abridged: return None".
Detail(p, sprint_id, force_update) ==
    /\ flows[p].pc \in {"idle", "done"}
    /\ \E sprint_abridged \in {get_abridged_team_sprint(sprints, AsId(sprint_id))} :
          flows' = [flows EXCEPT ![p] =
                      [NoFlow EXCEPT !.pc = IF sprint_abridged = NoSprint
                                            THEN "done" ELSE "load",
                                     !.sprint_id = sprint_id,
                                     !.force_update = force_update,
                                     !.sprint_abridged = sprint_abridged]]
    /\ UNCHANGED <<sprints, sprint_rev, lookup, cacheVars, aggVars, fetchVars,
                   jqlVars, contextVars, workflowVars,
                   githubVars, analysisVars>>

\* load_sprint(sprint_id): the first entry of the sprint, or None
load_sprint(sprint_id) ==
    load([EmptyQuery EXCEPT !.sprint_id = <<sprint_id>>], 0, "none", DESCENDING, 0)

\* Any entry of the cache is used, whatever the state of its sprint.
UseCachedAlways(f, results) == results # <<>>

\* "if team_stats and team_stats['team_sprint_data']['sprint']['state'] ==
\* 'CLOSED'"
UseCached(f, results) ==
    /\ results # <<>>
    /\ results[1].team_sprint_data.state = "CLOSED"

\* "team_stats = self.cache.load_sprint(sprint_abridged['id'])" and the
\* return of a closed sprint from the cache
LoadSprint(p) ==
    /\ flows[p].pc = "load"
    /\ load_sprint(flows[p].sprint_abridged.id)
    /\ flows' = [flows EXCEPT ![p] =
                   IF UseCached(flows[p], data')
                   THEN [@ EXCEPT !.pc = "done", !.returned = TeamStats(data'[1])]
                   ELSE [@ EXCEPT !.pc = "fetch"]]
    /\ UNCHANGED <<sprints, sprint_rev, lookup, aggVars, fetchVars,
                   jqlVars, contextVars, workflowVars,
                   githubVars, analysisVars>>

\* uajira.sprint_info(board, id): the sprint as Jira has it now, None when
\* the board has no such sprint
sprint_info(id) ==
    LET found == FirstWithId(sprints, id)
    IN  IF found = NoSprint THEN NoSprintOb
        ELSE [id |-> id, state |-> found.state, rev |-> sprint_rev]

\* "sprint_ob = self.uajira.sprint_info(...)" and "if not sprint_ob: return
\* None"
SprintInfo(p) ==
    /\ flows[p].pc = "fetch"
    /\ \E sprint_ob \in {sprint_info(flows[p].sprint_abridged.id)} :
          flows' = [flows EXCEPT ![p] =
                      [@ EXCEPT !.pc = IF sprint_ob = NoSprintOb THEN "done" ELSE "update",
                                !.sprint_ob = sprint_ob]]
    /\ UNCHANGED <<sprints, sprint_rev, lookup, cacheVars, aggVars, fetchVars,
                   jqlVars, contextVars, workflowVars,
                   githubVars, analysisVars>>

\* The team stats are built, "self.cache.update(team_stats)", and they are
\* returned.
UpdateStats(p) ==
    /\ flows[p].pc = "update"
    /\ \E team_stats \in {[sprint_id |-> flows[p].sprint_id,
                           team_sprint_data |-> flows[p].sprint_ob]} :
          /\ update(<<team_stats>>)
          /\ flows' = [flows EXCEPT ![p] =
                         [@ EXCEPT !.pc = "done",
                                   !.returned = IF res' = "ok" THEN team_stats ELSE NoStats,
                                   !.raised = IF res' = "ok" THEN "none" ELSE res']]
    /\ UNCHANGED <<sprints, sprint_rev, lookup, aggVars, fetchVars,
                   jqlVars, contextVars, workflowVars,
                   githubVars, analysisVars>>

\* Jira: the active sprint is closed.
SprintCloses ==
    /\ \E i \in 1..Len(sprints) :
          /\ sprints[i].state = "ACTIVE"
          /\ sprints' = [sprints EXCEPT ![i].state = "CLOSED"]
    /\ UNCHANGED <<sprint_rev, flows, lookup, cacheVars, aggVars, fetchVars,
                   jqlVars, contextVars, workflowVars,
                   githubVars, analysisVars>>

\* Jira: the contents of the sprint change.
ContentsChange ==
    /\ \E r \in Revs : r > sprint_rev /\ sprint_rev' = r
    /\ UNCHANGED <<sprints, flows, lookup, cacheVars, aggVars, fetchVars,
                   jqlVars, contextVars, workflowVars,
                   githubVars, analysisVars>>

----------------------------------------------------------------------------
(* api.set_default_context and api.get_default_context.  A context is the   *)
(* AugurContext of a group: the id of the group and that group's workflow.  *)

GroupIds == {1, 2, 3}

NoContext == [group |-> 0, workflow |-> 0]

\* AugurContext(group_id)
AugurContext(group_id) == [group |-> group_id, workflow |-> 10 * group_id]

ContextIdle ==
    /\ context = NoContext
    /\ got = [passed |-> NoContext, returned |-> NoContext, op |-> "none"]

\* A default context that is kept once it is set.
AssignedOnce(old, new) == IF old = NoContext THEN new ELSE old

\* "__context = context"
Assigned(old, new) == new

\* set_default_context(context)
set_default_context(c) ==
    /\ context' = Assigned(context, c)
    /\ got' = [got EXCEPT !.passed = c, !.op = "set"]
    /\ UNCHANGED <<cacheVars, aggVars, fetchVars, jqlVars, sprintVars, workflowVars,
                   githubVars, analysisVars>>

\* get_default_context()
get_default_context ==
    /\ got' = [got EXCEPT !.returned = context, !.op = "get"]
    /\ UNCHANGED <<context, cacheVars, aggVars, fetchVars, jqlVars, sprintVars, workflowVars,
                   githubVars, analysisVars>>

\* api.get_cached_data(key, override_ttl): a call of the api that consults
\* the default context
get_cached_data(key, override_ttl) ==
    /\ load_from_key(key, override_ttl)
    /\ got' = [got EXCEPT !.op = "get_cached_data"]
    /\ UNCHANGED <<context, aggVars, fetchVars, jqlVars, sprintVars, workflowVars,
                   githubVars, analysisVars>>

\* api.cache_data(document, key)
cache_data(document, key) ==
    /\ save_with_key(document, key)
    /\ got' = [got EXCEPT !.op = "cache_data"]
    /\ UNCHANGED <<context, aggVars, fetchVars, jqlVars, sprintVars, workflowVars,
                   githubVars, analysisVars>>

----------------------------------------------------------------------------
(* Workflow.is_resolved (augur/db/__init__.py).  A status of the workflow   *)
(* is its tool_issue_status_name and tool_issue_status_type, a resolution   *)
(* its tool_issue_resolution_name and tool_issue_resolution_type.           *)

\* str.lower() on the strings of the model
Lower(str) ==
    CASE str = "Open" -> "open"
      [] str = "Closed" -> "closed"
      [] str = "CLOSED" -> "closed"
      [] str = "Done" -> "done"
      [] str = "Fixed" -> "fixed"
      [] str = "FIXED" -> "fixed"
      [] str = "Positive" -> "positive"
      [] OTHER -> str

\* "filter(lambda x: x.name.lower() == name.lower(), obs).pop()": the last of
\* the matches, and None for the IndexError of pop() on an empty list
NoOb == [name |-> "None", type |-> "None"]

ob_from_string(obs, name) ==
    LET found == SelectSeq(obs, LAMBDA x : Lower(x.name) = Lower(name))
    IN  IF found = <<>> THEN NoOb ELSE found[Len(found)]

status_ob_from_string(status_name) == ob_from_string(workflow.statuses, status_name)

resolution_ob_from_string(res_name) == ob_from_string(workflow.resolutions, res_name)

\* is_resolved(status, resolution)
is_resolved(status, resolution) ==
    LET status_ob == status_ob_from_string(status)
        res_ob == resolution_ob_from_string(resolution)
    IN  IF status_ob = NoOb THEN FALSE
        ELSE IF Lower(status_ob.type) = "done"
        THEN IF res_ob # NoOb THEN Lower(res_ob.type) = "positive" ELSE TRUE
        ELSE FALSE

NotResolved == [status |-> "none", resolution |-> "none", result |-> FALSE]

WorkflowIdle ==
    /\ workflow = [statuses |-> <<>>, resolutions |-> <<>>]
    /\ resolved = NotResolved

\* A call of is_resolved on the workflow.
IsResolved(status, resolution) ==
    /\ resolved' = [status |-> status, resolution |-> resolution,
                    result |-> is_resolved(status, resolution)]
    /\ UNCHANGED <<workflow, cacheVars, aggVars, fetchVars, jqlVars, sprintVars,
                   contextVars, githubVars, analysisVars>>

----------------------------------------------------------------------------
(* UaGithubDevStats: the pull requests of one user and their averages.  A   *)
(* pull request is its author's login, whether it was merged, its counts of  *)
(* changed files, review comments and comments, and the hours it was open.  *)
(* The counts are ints, and "/=" on ints is the floor division.              *)

Logins == {"dev", "other"}

PullRequests ==
    [login : Logins, merged : BOOLEAN, changed_files : {2, 4},
     review_comments : {1}, comments : {0, 2}, open : {6}]

\* __init__(username)
NewDevStats(username) ==
    [user |-> username, prs |-> <<>>,
     avg_changed_files_per_pr |-> 0, avg_comments_per_pr |-> 0,
     highest_changes_in_pr |-> 0, highest_comments_in_pr |-> 0,
     avg_length_of_time_pr_was_open |-> <<0, 1>>, dirty |-> FALSE]

NotReported ==
    [prs |-> <<>>, avg_changed_files_per_pr |-> -1, avg_comments_per_pr |-> -1,
     highest_changes_in_pr |-> -1, highest_comments_in_pr |-> -1,
     avg_length_of_time_pr_was_open |-> <<0, 1>>, calls |-> 0]

GithubIdle ==
    /\ devstats = NewDevStats("dev")
    /\ reported = NotReported

\* "if self.dirty"
Divides(dirty) == dirty

\* add_pr(pr)
add_pr(pr) ==
    /\ Len(devstats.prs) < MaxPrs
    /\ devstats' =
          IF pr.login = devstats.user /\ pr.merged
          THEN LET comment_count == pr.review_comments + pr.comments
                   open == devstats.avg_length_of_time_pr_was_open
               IN  [devstats EXCEPT
                      !.dirty = TRUE,
                      !.prs = Append(@, pr),
                      !.avg_changed_files_per_pr = @ + pr.changed_files,
                      !.avg_comments_per_pr = @ + comment_count,
                      !.highest_changes_in_pr =
                          IF pr.changed_files > @ THEN pr.changed_files ELSE @,
                      !.highest_comments_in_pr =
                          IF comment_count > @ THEN comment_count ELSE @,
                      !.avg_length_of_time_pr_was_open =
                          Ratio(open[1] + pr.open * open[2], open[2])]
          ELSE devstats
    /\ reported' = [reported EXCEPT !.calls = 0]
    /\ UNCHANGED <<cacheVars, aggVars, fetchVars, jqlVars, sprintVars, contextVars,
                   workflowVars, analysisVars>>

\* as_dict()
as_dict ==
    /\ devstats' =
          IF Divides(devstats.dirty)
          THEN LET n == Len(devstats.prs)
                   open == devstats.avg_length_of_time_pr_was_open
               IN  [devstats EXCEPT
                      !.avg_changed_files_per_pr = @ \div n,
                      !.avg_comments_per_pr = @ \div n,
                      !.avg_length_of_time_pr_was_open = Ratio(open[1], open[2] * n),
                      !.dirty = FALSE]
          ELSE devstats
    /\ reported' =
          [prs |-> devstats'.prs,
           avg_changed_files_per_pr |-> devstats'.avg_changed_files_per_pr,
           avg_comments_per_pr |-> devstats'.avg_comments_per_pr,
           highest_changes_in_pr |-> devstats'.highest_changes_in_pr,
           highest_comments_in_pr |-> devstats'.highest_comments_in_pr,
           avg_length_of_time_pr_was_open |-> devstats'.avg_length_of_time_pr_was_open,
           calls |-> IF reported.calls < 2 THEN reported.calls + 1 ELSE 2]
    /\ UNCHANGED <<cacheVars, aggVars, fetchVars, jqlVars, sprintVars, contextVars,
                   workflowVars, analysisVars>>

----------------------------------------------------------------------------
(* AugurJira.execute_jql_with_analysis over the issues execute_jql returns  *)
(* and the workflow of the context.  An issue is its key, its assignee, its  *)
(* points (0 when it has none), its status and its resolution.  The times in *)
(* status, which are read from the changelog, are left out; the names of the *)
(* statuses differ from the other keys of the result.                        *)

\* is_abandoned(status, resolution)
is_abandoned(status, resolution) ==
    LET status_ob == status_ob_from_string(status)
        res_ob == resolution_ob_from_string(resolution)
    IN  IF status_ob = NoOb THEN FALSE
        ELSE /\ Lower(status_ob.type) = "done"
             /\ res_ob # NoOb
             /\ Lower(res_ob.type) = "negative"

\* _clean_username(username): username.replace(".", "_")
clean_username(username) ==
    CASE username = "a.b" -> "a_b"
      [] OTHER -> username

\* _status_to_dict_key(status): lower case, blanks as underscores
status_to_dict_key(status) == Lower(status)

\* The entry a developer gets in developer_stats.
NewDeveloper ==
    [complete |-> 0, incomplete |-> 0, abandoned |-> 0, percent_complete |-> 0,
     total_points |-> 0, issues |-> <<>>]

\* "result = {...}" before the loop
NewAnalysis(list) ==
    [ticket_count |-> Len(list), remaining_ticket_count |-> 0, unpointed |-> 0,
     developer_stats |-> <<>>, issues |-> {},
     status_counts |-> [i \in {status_to_dict_key(workflow.statuses[n].name) :
                                 n \in 1..Len(workflow.statuses)} |-> 0],
     complete |-> 0, incomplete |-> 0, total_points |-> 0, percent_complete |-> 0,
     abandoned |-> 0]

\* "if issue['assignee'] not in result['developer_stats']"
IsNewDeveloper(issue, developer_stats) == issue.assignee \notin DOMAIN developer_stats

\* int((complete / total if total > 0 else 0) * 100.0)
Percent(complete, total) == IF total > 0 THEN (100 * complete) \div total ELSE 0

\* "for issue in issues", from the i-th issue on
RECURSIVE Counted(_, _, _, _)
Counted(list, i, total_only, result) ==
    IF i > Len(list) THEN result
    ELSE LET issue == list[i]
             assignee_cleaned == clean_username(issue.assignee)
             started == IF IsNewDeveloper(issue, result.developer_stats)
                        THEN (assignee_cleaned :> NewDeveloper) @@ result.developer_stats
                        ELSE result.developer_stats
             figure == IF is_resolved(issue.status, issue.resolution) THEN "complete"
                       ELSE IF is_abandoned(issue.status, issue.resolution) THEN "abandoned"
                       ELSE "incomplete"
             status_as_key == status_to_dict_key(issue.status)
             counts == IF status_as_key \in DOMAIN result.status_counts
                       THEN result.status_counts
                       ELSE (status_as_key :> 0) @@ result.status_counts
         IN  Counted(list, i + 1, total_only,
                [result EXCEPT
                   ![figure] = @ + issue.points,
                   !.developer_stats =
                       [started EXCEPT
                          ![assignee_cleaned] =
                              [@ EXCEPT !.issues = Append(@, issue.key),
                                        ![figure] = @ + issue.points]],
                   !.unpointed = IF issue.points = 0 THEN @ + 1 ELSE @,
                   !.status_counts = [counts EXCEPT ![status_as_key] = @ + 1],
                   !.remaining_ticket_count =
                       IF ~is_resolved(issue.status, issue.resolution) THEN @ + 1 ELSE @,
                   !.issues = IF total_only THEN @ ELSE @ \cup {issue.key}])

\* execute_jql_with_analysis(query, total_only), on the issues of the query
execute_jql_with_analysis(list, total_only) ==
    LET result == Counted(list, 1, total_only, NewAnalysis(list))
        total_points == result.complete + result.incomplete + result.abandoned
    IN  [result EXCEPT
           !.percent_complete = Percent(result.complete, total_points),
           !.total_points = total_points,
           !.developer_stats =
               [a \in DOMAIN @ |->
                   LET dev == @[a]
                       total == dev.complete + dev.incomplete + dev.abandoned
                   IN  [dev EXCEPT !.percent_complete = Percent(dev.complete, total),
                                   !.total_points = total]]]

\* Nothing analysed (yet).
NotAnalysed == [ticket_count |-> -1]

AnalysisIdle ==
    /\ issues = <<>>
    /\ analysis = NotAnalysed

\* A call of execute_jql_with_analysis.
Analyse(total_only) ==
    /\ analysis' = execute_jql_with_analysis(issues, total_only)
    /\ UNCHANGED <<issues, cacheVars, aggVars, fetchVars, jqlVars, sprintVars,
                   contextVars, workflowVars, githubVars>>

----------------------------------------------------------------------------
(* The specifications.  Spec exercises the writes on every combination of  *)
(* unique key and clearing policy, with a few loads to stage results in    *)
(* self.data; SpecLoad exercises load with every argument on collections   *)
(* filled by small saves.                                                  *)

\* A caller hands over one dict or a list of them; two is the shortest list
\* in which entries can share a key or cross each other's keys.
BatchSizes == {1, 2}

\* The entries a dataset's callers build.  In a collection keyed on
\* sprint_id (team sprint data) an entry may or may not carry a field named
\* id; in one keyed on id every entry has its id; in an unkeyed one the
\* entries here carry no id.
BatchesFrom(entries) ==
    {<<>>} \cup UNION {[1..n -> entries] : n \in BatchSizes}

SprintKeyedBatches == BatchesFrom({e \in Entries : e.id \in {0, 1}})

IdKeyedBatches == BatchesFrom({e \in Entries : e.id # 0})

UnkeyedBatches == BatchesFrom({e \in Entries : e.id = 0})

BatchesOf(config) ==
    CASE config.unique_key = "sprint_id" -> SprintKeyedBatches
      [] config.unique_key = "id" -> IdKeyedBatches
      [] OTHER -> UnkeyedBatches

OneEntryBatches == {<<e>> : e \in {e \in Entries : e.id = 0}}

Ttls == {0, 2}

WriteConfigs ==
    [name : {"stats"}, unique_key : {"none", "id", "sprint_id"}, ttl : {2},
     clear_before_add : BOOLEAN, unique_type : {"none"}]

LoadConfigs ==
    [name : {"stats"}, unique_key : {"none"}, ttl : Ttls,
     clear_before_add : {FALSE}, unique_type : {"none"}]

CacheInit(configs) ==
    /\ cfg \in configs
    /\ coll = <<>>
    /\ data = <<>>
    /\ now = 0
    /\ call = [op |-> "init", at |-> 0] @@ NoArgs
    /\ res = "ok"
    /\ sent = <<>>
    /\ failed_at = 0
    /\ query_object = EmptyQuery

InitWith(configs) ==
    /\ CacheInit(configs)
    /\ AggIdle
    /\ FetchIdle
    /\ JqlIdle
    /\ SprintIdle
    /\ ContextIdle
    /\ WorkflowIdle
    /\ GithubIdle
    /\ AnalysisIdle

Init == InitWith(WriteConfigs)

InitLoad == InitWith(LoadConfigs)

SaveAny == \E b \in BatchesOf(cfg) : Save(b)

UpdateAny == \E b \in BatchesOf(cfg) : Update(b)

\* load() and load(limit=1, order_by='storage_time') as load_dashboard does
LoadSome ==
    \/ Load(EmptyQuery, 0, "none", DESCENDING, 0)
    \/ Load(EmptyQuery, 1, "storage_time", DESCENDING, 0)

SaveOne == \E b \in OneEntryBatches : Save(b)

Orders ==
    {<<"none", DESCENDING>>, <<"storage_time", DESCENDING>>, <<"storage_time", ASCENDING>>}

\* The loads of SpecLoad: unlimited and unsorted with every query and ttl
\* override, and limited or sorted ones with the caller's filter alone.
LoadArgs ==
    {<<q, 0, o, t>> : q \in Queries, o \in {<<"none", DESCENDING>>}, t \in {0, 1, 3}}
    \cup {<<q, n, o, t>> : q \in {q \in Queries : q.storage_time = <<>>},
                           n \in {1, 2}, o \in Orders, t \in {0, 3}}

LoadAny == \E a \in LoadArgs : Load(a[1], a[2], a[3][1], a[3][2], a[4])

Next == SaveAny \/ UpdateAny \/ LoadSome \/ Empty \/ Tick(MaxWriteTime)

Spec == Init /\ [][Next]_vars

NextLoad == SaveOne \/ LoadAny \/ Tick(MaxTime)

\* SpecRefuse: saves, with the held data cleared in between.
NextRefuse == SaveAny \/ clear_data \/ Tick(MaxWriteTime)

SpecRefuse == Init /\ [][NextRefuse]_vars

SpecLoad == InitLoad /\ [][NextLoad]_vars

----------------------------------------------------------------------------
(* SpecTyped: one collection shared by model classes that tell their        *)
(* documents apart by get_unique_type(), written with dicts that may        *)
(* already carry storage_time and storage_type fields of the caller's.      *)

Types == {"a", "b"}

TypedEntries ==
    [id : {1}, sprint_id : KeyVals, storage_time : {-1, 2},
     storage_type : {"absent", "b"}]

TypedBatches == {<<>>} \cup {<<e>> : e \in TypedEntries}

TypedConfigs ==
    [name : {"stats"}, unique_key : {"none", "id"}, ttl : {2},
     clear_before_add : {FALSE}, unique_type : Types]

TypedQueries ==
    [sprint_id : {<<>>}, storage_time : {<<>>}, storage_type : {<<>>, <<"b">>}]

InitTyped == InitWith(TypedConfigs)

\* An object of another model class on the same collection: a new UaModel
\* with its own get_unique_type() and an empty self.data.
Reopen(type) ==
    /\ type # cfg.unique_type
    /\ cfg' = [cfg EXCEPT !.unique_type = type]
    /\ data' = <<>>
    /\ call' = [op |-> "init", at |-> now] @@ NoArgs
    /\ res' = "ok"
    /\ sent' = <<>>
    /\ UNCHANGED <<coll, now, failed_at, query_object, outside>>

SaveTyped == \E b \in TypedBatches : Save(b)

UpdateTyped == \E b \in TypedBatches : Update(b)

LoadTyped == \E q \in TypedQueries : Load(q, 0, "none", DESCENDING, 0)

ReopenAny == \E type \in Types : Reopen(type)

NextTyped == SaveTyped \/ UpdateTyped \/ LoadTyped \/ ReopenAny \/ Tick(MaxWriteTime)

SpecTyped == InitTyped /\ [][NextTyped]_vars

----------------------------------------------------------------------------
(* SpecAgg: a history request collects up to MaxSprints snapshots and has   *)
(* them aggregated.  SpecPure: aggregations one after another, on a few     *)
(* snapshots, with saves changing the cache in between.  SpecValidate: the  *)
(* calls of validate_input.                                                 *)

InitAgg == InitWith({c \in LoadConfigs : c.ttl = 2})

CollectAny ==
    /\ aggregate_data = NotAggregated
    /\ \E s \in Snapshots : Collect(s)

NextAgg == CollectAny \/ Aggregate \/ NewRequest

SpecAgg == InitAgg /\ [][NextAgg]_vars

PureSnapshots == {Snapshot(1, <<10>>, << <<>>, <<3>> >>), Snapshot(2, <<>>, <<>>)}

CollectFew == \E s \in PureSnapshots : Collect(s)

SaveSame == Save(<<[id |-> 0, sprint_id |-> 1]>>)

NextPure == CollectFew \/ Aggregate \/ NextRequest \/ SaveSame \/ Empty

SpecPure == InitAgg /\ [][NextPure]_vars

\* SpecHistory: the sprints of a team come back in any order, each with an
\* end date, and the history is aggregated.
EndDates == {1, 2, 3}

DatedSnapshots ==
    {[Snapshot(id, <<10 * id>>, <<>>) EXCEPT !.sprint = [id |-> id, endDate |-> end]] :
        id \in SprintIds, end \in EndDates}

CollectDated ==
    /\ aggregate_data = NotAggregated
    /\ \E s \in DatedSnapshots : Collect(s)

NextHistory == CollectDated \/ AggregateHistory \/ NewRequest

SpecHistory == InitAgg /\ [][NextHistory]_vars

ValidateAny == \E a \in ArgSets : validate_input(a)

SpecValidate == InitAgg /\ [][ValidateAny]_vars

----------------------------------------------------------------------------
(* SpecReuse: a caller that loads with a query dict of its own making and   *)
(* may hand the same dict to a later load.                                  *)

ReuseQueries == {EmptyQuery, [EmptyQuery EXCEPT !.sprint_id = <<1>>]}

LoadFresh == \E q \in ReuseQueries : Load(q, 0, "none", DESCENDING, 0)

\* The dict of the last load is passed again.
LoadHeld == Load(query_object, 0, "none", DESCENDING, 0)

NextReuse == SaveOne \/ LoadFresh \/ LoadHeld \/ Tick(MaxTime)

SpecReuse == InitAgg /\ [][NextReuse]_vars

----------------------------------------------------------------------------
(* SpecJql: requests to execute_jql, one after the other, while time passes *)
(* and the issues in Jira change.                                           *)

InitJql == InitWith({ResultSetConfig})

NextJql ==
    \/ \E jql \in Jqls : execute_jql(jql, {}, FALSE, DefaultMaxResults)
    \/ search_issues
    \/ JiraChanges
    \/ Tick(MaxTime)

SpecJql == InitJql /\ [][NextJql]_vars

\* SpecSettings: requests to execute_jql for one jql with every setting of
\* expand, include_changelog and max_results.
NextSettings ==
    \/ \E expand \in ExpandArgs, include_changelog \in BOOLEAN,
          max_results \in MaxResultsArgs :
          execute_jql("a", expand, include_changelog, max_results)
    \/ search_issues
    \/ JiraChanges
    \/ Tick(MaxWriteTime)

SpecSettings == InitJql /\ [][NextSettings]_vars

----------------------------------------------------------------------------
(* SpecSprint: two fetchers ask for the one sprint of a team, by its id or  *)
(* as the current sprint, while Jira closes the sprint and changes its      *)
(* contents.  SpecLookup: the lookup on every short sprint list.            *)
(* SpecContext: the default context among other calls of the api.           *)
(* SpecWorkflow: is_resolved on small workflows.                            *)

InitSprint ==
    /\ CacheInit({TeamSprintConfig})
    /\ AggIdle /\ FetchIdle /\ JqlIdle /\ ContextIdle /\ WorkflowIdle
    /\ GithubIdle /\ AnalysisIdle
    /\ sprints = <<[id |-> 1, sequence |-> 1, state |-> "ACTIVE", overdue |-> FALSE]>>
    /\ sprint_rev = 1
    /\ flows = [p \in Procs |-> NoFlow]
    /\ lookup = NotLookedUp

NextSprint ==
    \/ \E p \in Procs, sprint_id \in {1, SPRINT_CURRENT, SPRINT_LAST_COMPLETED},
            force_update \in BOOLEAN :
          Detail(p, sprint_id, force_update)
    \/ \E p \in Procs : LoadSprint(p) \/ SprintInfo(p) \/ UpdateStats(p)
    \/ SprintCloses
    \/ ContentsChange

SpecSprint == InitSprint /\ [][NextSprint]_vars

BoardIds == {1, 2, 3}

\* The abridged sprints of a board: the sequence of a sprint is its id here,
\* and only an active sprint is marked overdue.
BoardSprints ==
    {[id |-> n, sequence |-> n, state |-> "FUTURE", overdue |-> FALSE] : n \in BoardIds}
    \cup {[id |-> n, sequence |-> n, state |-> "ACTIVE", overdue |-> o] :
             n \in BoardIds, o \in BOOLEAN}
    \cup {[id |-> n, sequence |-> n, state |-> "CLOSED", overdue |-> FALSE] : n \in BoardIds}

\* The sprint lists of a board: no sprint twice, in any order.
SprintLists ==
    UNION {{list \in [1..n -> BoardSprints] :
               \A i, j \in 1..n : i # j => list[i].id # list[j].id}
           : n \in 0..Cardinality(BoardIds)}

LookupArgs ==
    {AsId(n) : n \in BoardIds \cup {SPRINT_LAST_COMPLETED,
                                    SPRINT_BEFORE_LAST_COMPLETED, SPRINT_CURRENT}}
    \cup {AsObject([id |-> 9, sequence |-> 9, state |-> "CLOSED", overdue |-> FALSE])}

InitLookup ==
    /\ CacheInit({TeamSprintConfig})
    /\ AggIdle /\ FetchIdle /\ JqlIdle /\ ContextIdle /\ WorkflowIdle
    /\ GithubIdle /\ AnalysisIdle
    /\ sprints \in SprintLists
    /\ sprint_rev = 1
    /\ flows = [p \in Procs |-> NoFlow]
    /\ lookup = NotLookedUp

NextLookup == \E sprint_id \in LookupArgs : Lookup(sprint_id)

SpecLookup == InitLookup /\ [][NextLookup]_vars

NextContext ==
    \/ \E g \in GroupIds : set_default_context(AugurContext(g))
    \/ get_default_context
    \/ \E jql \in Jqls : get_cached_data(Md5(jql), 0)
    \/ \E jql \in Jqls : cache_data([data |-> NoIssues], Md5(jql))

SpecContext == InitJql /\ [][NextContext]_vars

\* SpecResultCache: documents are stored under keys and asked for, one call
\* after the other.
NextResultCache ==
    \/ \E jql \in Jqls, r \in Results : cache_data([data |-> r], Md5(jql))
    \/ \E jql \in Jqls : get_cached_data(Md5(jql), 0)
    \/ Tick(MaxTime)

SpecResultCache == InitJql /\ [][NextResultCache]_vars

\* SpecGithub: pull requests are added to one UaGithubDevStats and as_dict
\* is called in between.
NextGithub ==
    \/ \E pr \in PullRequests : add_pr(pr)
    \/ as_dict

SpecGithub == InitJql /\ [][NextGithub]_vars

\* The workflow of SpecAnalysis: open and done statuses, a positive and a
\* negative resolution.
AnalysisWorkflow ==
    [statuses |-> <<[name |-> "Open", type |-> "open"], [name |-> "Closed", type |-> "Done"]>>,
     resolutions |-> <<[name |-> "Fixed", type |-> "Positive"],
                       [name |-> "Wontfix", type |-> "negative"]>>]

Assignees == {"a.b", "c"}

\* The lists of up to MaxIssues issues; the key of an issue is its place.
IssueLists ==
    UNION {{list \in [1..n -> [key : 1..n, assignee : Assignees, points : {0, 3},
                               status : {"Open", "Closed"},
                               resolution : {"Fixed", "Wontfix"}]] :
               \A i \in 1..n : list[i].key = i}
           : n \in 0..MaxIssues}

InitAnalysis ==
    /\ CacheInit({ResultSetConfig})
    /\ AggIdle /\ FetchIdle /\ JqlIdle /\ SprintIdle /\ ContextIdle /\ GithubIdle
    /\ workflow = AnalysisWorkflow
    /\ resolved = NotResolved
    /\ issues \in IssueLists
    /\ analysis = NotAnalysed

NextAnalysis == \E total_only \in BOOLEAN : Analyse(total_only)

SpecAnalysis == InitAnalysis /\ [][NextAnalysis]_vars

StatusObs == [name : {"Open", "Closed"}, type : {"open", "Done"}]

ResolutionObs == [name : {"Fixed", "Wontfix"}, type : {"Positive", "negative"}]

\* The workflows: up to two statuses and up to two resolutions.
Workflows ==
    [statuses : {<<>>} \cup {<<a>> : a \in StatusObs}
                       \cup {<<a, b>> : a \in StatusObs, b \in StatusObs},
     resolutions : {<<>>} \cup {<<a>> : a \in ResolutionObs}
                          \cup {<<a, b>> : a \in ResolutionObs, b \in ResolutionObs}]

InitWorkflow ==
    /\ CacheInit({ResultSetConfig})
    /\ AggIdle /\ FetchIdle /\ JqlIdle /\ SprintIdle /\ ContextIdle
    /\ GithubIdle /\ AnalysisIdle
    /\ workflow \in Workflows
    /\ resolved = NotResolved

NextWorkflow ==
    \E status \in {"open", "CLOSED"}, resolution \in {"FIXED", "Wontfix"} :
        IsResolved(status, resolution)

SpecWorkflow == InitWorkflow /\ [][NextWorkflow]_vars

----------------------------------------------------------------------------
(* Properties *)

IsWrite(c) == c.op \in {"save", "update"}

NoDataError == {"ValueError: No data found to save", "ValueError: No data found to update"}

ConfigurationError == "ValueError: no unique index"

KeyOf(d) == d[cfg.unique_key]

\* The positions of the stored documents whose unique key is k.
StoredAt(k) == {n \in 1..Len(coll) : KeyOf(coll[n]) = k}

\* The last entry of a batch that has the key of its i-th entry.
LastWithKeyOf(batch, i) ==
    CHOOSE j \in 1..Len(batch) :
        /\ KeyOf(batch[j]) = KeyOf(batch[i])
        /\ \A m \in (j + 1)..Len(batch) : KeyOf(batch[m]) # KeyOf(batch[i])

\* C1: in a keyed collection no two stored entries share a unique-key value,
\* and after a save or update every key of the batch is stored exactly once,
\* with the fields of the last entry written for that key.
C1_UniqueKeyUpsert ==
    Keyed =>
        /\ \A i, j \in 1..Len(coll) : i # j => KeyOf(coll[i]) # KeyOf(coll[j])
        /\ (IsWrite(call) /\ call.batch # <<>>) =>
              \A i \in 1..Len(call.batch) :
                  /\ Cardinality(StoredAt(KeyOf(call.batch[i]))) = 1
                  /\ \A n \in StoredAt(KeyOf(call.batch[i])) :
                        Strip(coll[n]) = call.batch[LastWithKeyOf(call.batch, i)]

\* C5: on a keyed collection a save (or an update) that repeats the batch of
\* the successful call before it succeeds as well and leaves the stored
\* entries, storage_time aside, as they were.
C5_WriteTwiceIsWriteOnce ==
    [][(/\ Keyed
        /\ IsWrite(call) /\ res = "ok" /\ call.batch # <<>>
        /\ call'.op = call.op /\ call'.batch = call.batch)
       => (res' = "ok" /\ StripAll(coll') = StripAll(coll))]_vars

\* C6: a save or update called with an empty batch raises the no-data error
\* (on an unkeyed collection update raises its configuration error first) and
\* leaves the collection as it was.
C6_EmptyBatchFails ==
    [][(IsWrite(call') /\ call'.batch = <<>>)
       => (/\ res' \in NoDataError \cup {ConfigurationError}
           /\ coll' = coll)]_vars

Min(a, b) == IF a <= b THEN a ELSE b

\* The documents a load call had to choose from: those that satisfy the query
\* it sent.
Candidates == Find(coll, EffectiveQuery(call.query, EffectiveTtl(call.override_ttl), call.at))

\* C10: a load with limit n >= 1 returns min(n, number of matching entries)
\* entries.
C10_LimitCapsAtN ==
    (call.op = "load" /\ call.limit >= 1)
        => Len(data) = Min(call.limit, Len(Candidates))

\* The caller's own clauses of the last load (its storage_time clause aside).
CallerMatches(d) ==
    call.query.sprint_id # <<>> => d.sprint_id = call.query.sprint_id[1]

\* The stored documents that match the caller's filter and are not older
\* than ttl at the time of the last call.
FreshFor(ttl) ==
    {d \in Range(coll) : CallerMatches(d) /\ d.storage_time >= call.at - ttl}

PlainLoad == call.op = "load" /\ call.query.storage_time = <<>>

\* C2: a load with a configured ttl T, no override and no storage_time
\* clause of the caller returns only entries that match the caller's filter
\* and have storage_time >= now - T, and without a limit it returns all of
\* them.
C2_TtlFilter ==
    (PlainLoad /\ cfg.ttl # 0 /\ call.override_ttl = 0)
        => /\ Range(data) \subseteq FreshFor(cfg.ttl)
           /\ call.limit = 0 => Range(data) = FreshFor(cfg.ttl)

C2_Witness ==
    /\ PlainLoad /\ cfg.ttl # 0 /\ call.override_ttl = 0 /\ call.limit = 0
    /\ \E d \in Range(data) : d.storage_time = call.at - cfg.ttl
    /\ \E d \in Range(coll) : CallerMatches(d) /\ d.storage_time < call.at - cfg.ttl

\* C3: a load with an override ttl applies the override in place of the
\* configured ttl, and a load without override that follows it applies the
\* configured ttl again.
C3_OverrideForThatCall ==
    /\ [](PlainLoad /\ call.override_ttl # 0
            => /\ Range(data) \subseteq FreshFor(call.override_ttl)
               /\ call.limit = 0 => Range(data) = FreshFor(call.override_ttl))
    /\ [][(/\ PlainLoad /\ call.override_ttl # 0
           /\ PlainLoad' /\ call'.override_ttl = 0 /\ call'.limit = 0 /\ cfg.ttl # 0)
          => Range(data') = FreshFor(cfg.ttl)']_vars

C3_Witness ==
    /\ PlainLoad /\ call.limit = 0
    /\ cfg.ttl # 0 /\ call.override_ttl > cfg.ttl
    /\ \E d \in Range(data) : d.storage_time < call.at - cfg.ttl

SavedAfterClear == call.op = "save" /\ res = "ok" /\ cfg.clear_before_add

\* C4 as stated: after a successful save on a clear_before_add collection
\* the entries the collection holds are exactly the entries of that save.
C4_ExactlyTheBatch ==
    SavedAfterClear => Range(StripAll(coll)) = Range(StripAll(data))

\* C4, amended: after a successful save on a clear_before_add collection
\* every stored entry is an entry of that save, written at the time of that
\* save; if the collection has no unique key it holds exactly the entries of
\* that save, in their order.
C4_OnlyTheBatch ==
    SavedAfterClear
        => /\ \A n \in 1..Len(coll) :
                  /\ coll[n].storage_time = call.at
                  /\ Strip(coll[n]) \in Range(StripAll(data))
           /\ ~Keyed => StripAll(coll) = StripAll(data)

C4_Witness ==
    /\ SavedAfterClear /\ ~Keyed
    /\ call.at > 0
    /\ Len(call.batch) = 2 /\ call.batch[1] # call.batch[2]
    /\ Len(coll) = 2

\* C7: update on a collection without unique key raises the configuration
\* error whatever the batch, changes nothing stored and sends no signal.
C7_UpdateNeedsUniqueKey ==
    [][(~Keyed /\ call'.op = "update")
       => (res' = ConfigurationError /\ coll' = coll /\ sent' = <<>>)]_vars

C7_Witness ==
    /\ ~Keyed /\ call.op = "update" /\ call.batch # <<>>
    /\ coll # <<>> /\ res = ConfigurationError

\* C8: an update leaves every stored entry whose key is not a key of the
\* batch it writes stored and unchanged, whatever clear_before_add says.
C8_UpdateNeverClears ==
    [][(Keyed /\ call'.op = "update")
       => \A n \in 1..Len(coll) :
              KeyOf(coll[n]) \notin Range(KeysOf(data'))
                  => \E m \in 1..Len(coll') : coll'[m] = coll[n]]_vars

C8_Witness ==
    /\ Keyed /\ cfg.clear_before_add
    /\ call.op = "update" /\ res = "ok" /\ call.batch # <<>>
    /\ \E n \in 1..Len(coll) :
           /\ KeyOf(coll[n]) \notin Range(KeysOf(data))
           /\ coll[n].storage_time < call.at

NewestFirst ==
    /\ call.op = "load" /\ call.limit = 1
    /\ call.order_by = "storage_time" /\ call.sort_order = DESCENDING

\* C9: load(limit=1, order_by=storage_time, descending) returns at most one
\* entry; if some stored entry passes the filters it returns one of greatest
\* storage_time among them, else it returns nothing and raises nothing.
C9_NewestOne ==
    NewestFirst
        => /\ Len(data) <= 1
           /\ res = "ok"
           /\ Candidates = <<>> => data = <<>>
           /\ Candidates # <<>>
                 => /\ Len(data) = 1
                    /\ data[1] \in Range(Candidates)
                    /\ \A d \in Range(Candidates) : d.storage_time <= data[1].storage_time

C9_Witness ==
    /\ NewestFirst
    /\ Len(Candidates) = 2
    /\ Candidates[1].storage_time < Candidates[2].storage_time

\* What a change notification has to name when the collection is keyed: the
\* unique-key field and the key value of every entry written.
WrittenKeys == IF Keyed THEN <<cfg.unique_key, KeysOf(data)>> ELSE <<>>

\* C11: a save or update that completes has sent exactly one cache_updated
\* signal, with the collection name, the number of entries written and, when
\* the collection is keyed, the unique-key field and value of each entry
\* written; a save or update that fails has sent none.
C11_OneUpdatedPerWrite ==
    IsWrite(call) =>
        IF res = "ok"
        THEN sent = <<[event |-> "cache_updated", cache_name |-> cfg.name,
                       update_info |-> WrittenKeys, key_count |-> Len(data)]>>
        ELSE sent = <<>>

\* The ttl the claim says a load reports: the override when given, else the
\* configured one.
TtlUsed == IF call.override_ttl # 0 THEN call.override_ttl ELSE cfg.ttl

\* The effective query in the words of the specification: the caller's
\* filter, a storage_time >= now - ttl clause when a ttl applies and the
\* caller has none of its own, the storage_type of the collection.
QuerySent ==
    [sprint_id |-> call.query.sprint_id,
     storage_time |-> IF call.query.storage_time # <<>> THEN call.query.storage_time
                      ELSE IF TtlUsed # 0 THEN <<call.at - TtlUsed>>
                      ELSE <<>>,
     storage_type |-> IF cfg.unique_type # "none" THEN <<cfg.unique_type>>
                      ELSE call.query.storage_type]

\* C12: a load has sent a cache_item_loaded signal if and only if its result
\* is not empty, and the signal carries the effective query, the ttl used,
\* the collection name, the number of entries returned and the storage_time
\* of the first of them.
C12_LoadedIffNonEmpty ==
    call.op = "load" =>
        IF data = <<>>
        THEN sent = <<>>
        ELSE sent = <<[event |-> "cache_item_loaded", ttl |-> TtlUsed,
                       query_object |-> QuerySent, cache_name |-> cfg.name,
                       cache_date |-> data[1].storage_time,
                       key_count |-> Len(data)]>>

C12_Witness ==
    /\ call.op = "load" /\ call.override_ttl # 0 /\ call.override_ttl # cfg.ttl
    /\ call.query.sprint_id = <<>> /\ call.query.storage_time = <<>>
    /\ Len(data) = 2 /\ data[1].storage_time # data[2].storage_time
    /\ Len(sent) = 1

\* C13: a load leaves the collection as it is; stored entries change only by
\* a save, an update or empty(); and a load with an override ttl returns
\* every stored entry that matches the caller's filter and whose age the
\* override covers, however long ago the configured ttl ran out for it.
C13_ExpiryIsSoft ==
    /\ [][call'.op = "load" => coll' = coll]_vars
    /\ [][coll' # coll => (IsWrite(call') \/ call'.op = "empty")]_vars
    /\ [](PlainLoad /\ call.override_ttl # 0 /\ call.limit = 0
            => \A d \in Range(coll) :
                   (CallerMatches(d) /\ call.at - d.storage_time <= call.override_ttl)
                       => d \in Range(data))

C13_Witness ==
    /\ PlainLoad /\ call.limit = 0 /\ cfg.ttl # 0
    /\ Len(coll) = 2 /\ Range(data) = Range(coll)
    /\ \E d \in Range(data) : call.at - d.storage_time > cfg.ttl
    /\ \E d \in Range(data) : call.at - d.storage_time = call.override_ttl

\* C14: every stored entry's storage_time is the time of the save or update
\* that wrote it: a step leaves a stored entry as it was or is a save or
\* update that stores it with the time of that call, whatever storage_time
\* the caller's dict carried, and no stored entry is dated after the clock.
C14_StorageTimeIsWriteTime ==
    /\ [][\A m \in 1..Len(coll') :
              \/ coll'[m] \in Range(coll)
              \/ IsWrite(call') /\ coll'[m].storage_time = call'.at /\ call'.at = now]_vars
    /\ [](\A m \in 1..Len(coll) : coll[m].storage_time \in 0..now)

C14_Witness ==
    /\ IsWrite(call) /\ res = "ok" /\ Len(call.batch) = 1
    /\ call.batch[1].storage_time \notin {-1, call.at}
    /\ call.at > 0
    /\ \E m \in 1..Len(coll) :
           /\ Strip(coll[m]) = Strip(call.batch[1])
           /\ coll[m].storage_time = call.at
    /\ \E m \in 1..Len(coll) : coll[m].storage_time < call.at

\* C15: on a collection with a unique type every entry a save or update
\* stores carries that type, whatever storage_type the caller's dict had, and
\* a load returns exactly the stored entries of that type that the ttl
\* admits, whatever storage_type the caller's filter names.
C15_TypePartition ==
    /\ [][(cfg.unique_type # "none" /\ IsWrite(call'))
            => \A m \in 1..Len(coll') :
                   coll'[m] \in Range(coll) \/ coll'[m].storage_type = cfg.unique_type]_vars
    /\ []((cfg.unique_type # "none" /\ call.op = "load")
            => Range(data) = {d \in Range(coll) :
                                 /\ d.storage_type = cfg.unique_type
                                 /\ d.storage_time >= call.at - cfg.ttl})

C15_Witness ==
    /\ cfg.unique_type = "a" /\ call.op = "load"
    /\ call.query.storage_type = <<"b">>
    /\ data # <<>>
    /\ \E d \in Range(coll) : d.storage_type = "b"

----------------------------------------------------------------------------
(* Properties of the sprint aggregator *)

SumOf(s) ==
    LET f[i \in 0..Len(s)] == IF i = 0 THEN 0 ELSE f[i - 1] + s[i]
    IN  f[Len(s)]

\* The points of the issues of a list, an issue without points as 0.
AddedPoints(added) ==
    SumOf([i \in 1..Len(added) |-> IF added[i] = <<>> THEN 0 ELSE added[i][1]])

PointTextKeys ==
    {"completedIssuesEstimateSum", "issuesNotCompletedEstimateSum", "puntedIssuesEstimateSum"}

TrackedKeys == Range(point_keys) \cup Range(issue_keys)

\* The value of a tracked field of a snapshot: the number in the text of a
\* point field (0 for 'null' or a missing field), the points of the added
\* issues, the length of an issue list.
ValueOf(snapshot, key) ==
    IF key = "pointsAddedDuringSprintSum"
    THEN AddedPoints(snapshot.contents.issueKeysAddedDuringSprint)
    ELSE IF key \in PointTextKeys
    THEN IF snapshot.contents[key] \in {<<>>, <<NullText>>} THEN 0
         ELSE snapshot.contents[key][1]
    ELSE Len(snapshot.contents[key])

\* Every snapshot of the list has its three point fields.
Complete(list) ==
    \A i \in 1..Len(list) : \A key \in PointTextKeys : list[i].contents[key] # <<>>

DistinctIds(list) ==
    \A i, j \in 1..Len(list) : i # j => list[i].sprint.id # list[j].sprint.id

Aggregated == aggregate_data.err # "none"

\* The list the last aggregation was given, in the order it was processed.
Asc == Reverse(given)

\* C16: for a list of snapshots with pairwise distinct sprint ids, the
\* record of the i-th sprint of the reversed list has, for each of the eight
\* tracked fields, actual = that sprint's value, running_sum = the sum of
\* the values of the sprints up to it, and running_avg = running_sum / i
\* (i counted from 1).
C16_RunningSums ==
    (Aggregated /\ Complete(given) /\ DistinctIds(given))
        => /\ aggregate_data.err = "ok"
           /\ \A i \in 1..Len(given) : \A key \in TrackedKeys :
                  LET rec == aggregate_data.recs[Asc[i].sprint.id][key]
                  IN  /\ rec.actual = ValueOf(Asc[i], key)
                      /\ rec.running_sum = SumOf([j \in 1..i |-> ValueOf(Asc[j], key)])
                      /\ rec.running_avg[1] * i = rec.running_sum * rec.running_avg[2]

C16_Witness ==
    /\ aggregate_data.err = "ok"
    /\ [i \in 1..Len(given) |-> given[i].sprint.id] = <<3, 2, 1>>
    /\ [i \in 1..Len(given) |-> given[i].contents.completedIssuesEstimateSum]
           = <<<<30>>, <<20>>, <<10>>>>
    /\ aggregate_data.recs[2]["completedIssuesEstimateSum"]
           = [actual |-> 20, running_avg |-> <<15, 1>>, running_sum |-> 30]
    /\ aggregate_data.recs[3]["completedIssuesEstimateSum"]
           = [actual |-> 30, running_avg |-> <<20, 1>>, running_sum |-> 60]

\* C17 as stated: for any list of snapshots the aggregation returns as many
\* per-sprint records as the list is long, an id sequence of that length,
\* and in each record the actual values of its own snapshot.
C17_OneRecordPerSnapshot ==
    (Aggregated /\ Complete(given))
        => /\ aggregate_data.err = "ok"
           /\ Cardinality(DOMAIN aggregate_data.recs) = Len(given)
           /\ Len(aggregate_data.asc_order) = Len(given)
           /\ \A i \in 1..Len(given) : \A key \in TrackedKeys :
                  aggregate_data.recs[Asc[i].sprint.id][key].actual = ValueOf(Asc[i], key)

\* The last snapshot processed that has the sprint id of the i-th.
LastOfId(i) ==
    CHOOSE j \in 1..Len(Asc) :
        /\ Asc[j].sprint.id = Asc[i].sprint.id
        /\ \A m \in (j + 1)..Len(Asc) : Asc[m].sprint.id # Asc[i].sprint.id

\* C17, amended: the aggregation returns one record per distinct sprint id
\* and an id sequence with one element per snapshot, in the order processed;
\* a record holds the actual values of the last snapshot processed with its
\* id and a reference to the sprint of the first; so for pairwise distinct
\* ids there are as many records as snapshots, each with the values of its
\* own snapshot.
C17_OneRecordPerSprintId ==
    (Aggregated /\ Complete(given))
        => /\ aggregate_data.err = "ok"
           /\ DOMAIN aggregate_data.recs = {given[i].sprint.id : i \in 1..Len(given)}
           /\ aggregate_data.asc_order = [i \in 1..Len(given) |-> Asc[i].sprint.id]
           /\ \A i \in 1..Len(given) : \A key \in TrackedKeys :
                  aggregate_data.recs[Asc[i].sprint.id][key].actual
                      = ValueOf(Asc[LastOfId(i)], key)
           /\ DistinctIds(given)
                 => /\ Cardinality(DOMAIN aggregate_data.recs) = Len(given)
                    /\ \A i \in 1..Len(given) :
                           aggregate_data.recs[Asc[i].sprint.id].info = Asc[i].sprint

C17_Witness ==
    /\ aggregate_data.err = "ok" /\ Len(given) = 3 /\ DistinctIds(given)
    /\ given[1].sprint.id < given[2].sprint.id
    /\ \E i \in 1..3 : given[i].contents.completedIssuesEstimateSum = <<NullText>>
    /\ \E i \in 1..3 : given[i].contents.issueKeysAddedDuringSprint # <<>>

\* C18: an aggregation never raises on a snapshot whose point field is
\* 'null' or missing, and the field counts as 0 in that sprint's record.
C18_NullOrAbsentIsZero ==
    Aggregated
        => /\ aggregate_data.err = "ok"
           /\ \A i \in 1..Len(given) : \A key \in PointTextKeys :
                  (i = LastOfId(i) /\ Asc[i].contents[key] \in {<<>>, <<NullText>>})
                      => aggregate_data.recs[Asc[i].sprint.id][key].actual = 0

\* A snapshot with its derived field set as the aggregation sets it.
Derived(snapshot) ==
    [snapshot EXCEPT !.contents.pointsAddedDuringSprintSum =
                         <<AddedPoints(snapshot.contents.issueKeysAddedDuringSprint)>>]

\* C19 as stated: an aggregation leaves the cache and the snapshots it was
\* given as they were, and returns what the aggregation before it returned
\* if it is given an equal list.
C19_PureFunction ==
    [][Aggregate
         => /\ coll' = coll /\ data' = data
            /\ sprint_data' = sprint_data
            /\ (Aggregated /\ given' = given) => aggregate_data' = aggregate_data]_vars

\* C19, amended: an aggregation leaves the cache as it was and changes the
\* snapshots it was given in one field only, pointsAddedDuringSprintSum,
\* which it sets in every snapshot it processes (in all of them when it
\* returns) to the points of the issues added during the sprint; given a
\* list equal to the one of the aggregation before it, or the list that
\* aggregation left behind, it returns what that aggregation returned.
C19_PureButForDerivedField ==
    [][Aggregate
         => /\ coll' = coll /\ data' = data
            /\ Len(sprint_data') = Len(sprint_data)
            /\ \A i \in 1..Len(sprint_data) :
                   sprint_data'[i] \in {sprint_data[i], Derived(sprint_data[i])}
            /\ aggregate_data'.err = "ok"
                  => \A i \in 1..Len(sprint_data) : sprint_data'[i] = Derived(sprint_data[i])
            /\ (/\ Aggregated
                /\ \/ given' = given
                   \/ given' = [i \in 1..Len(given) |-> Derived(given[i])])
                  => aggregate_data'.err = aggregate_data.err
            /\ (/\ aggregate_data.err = "ok"
                /\ \/ given' = given
                   \/ given' = [i \in 1..Len(given) |-> Derived(given[i])])
                  => aggregate_data' = aggregate_data]_vars

C19_Witness ==
    /\ aggregate_data.err = "ok" /\ Len(given) >= 2
    /\ sprint_data # given
    /\ sprint_data = [i \in 1..Len(given) |-> Derived(given[i])]
    /\ coll # <<>>

----------------------------------------------------------------------------
(* Properties of validate_input *)

History == Truthy(ArgOr(kwargs, "get_history", "False"))

NoTeam == ~Truthy(ArgOr(kwargs, "team_id", "None"))

\* A sprint_id argument that is not one of the two constants.
SpecificSprint == kwargs.sprint_id \notin (SprintConsts \cup {"absent"})

Validated == verdict # "none"

\* C20 as stated: validate_input raises if and only if history is requested
\* together with a specific sprint id, or history is requested without a
\* team id, or a specific sprint id is requested without a team id.
C20_FailsIff ==
    Validated
        => ((verdict # "True")
              <=> \/ History /\ SpecificSprint
                  \/ History /\ NoTeam
                  \/ SpecificSprint /\ NoTeam)

\* C20, amended: validate_input raises if and only if history is requested
\* and a sprint_id argument is passed at all (a specific id or one of the
\* two constants), or history is requested without a team id, or a specific
\* sprint id is requested without a team id.
C20_FailsIffSprintPassed ==
    Validated
        => ((verdict # "True")
              <=> \/ History /\ kwargs.sprint_id # "absent"
                  \/ History /\ NoTeam
                  \/ SpecificSprint /\ NoTeam)

C20_Witness ==
    /\ kwargs = [team_id |-> "hb", sprint_id |-> "SPRINT_CURRENT", get_history |-> "True"]
    /\ verdict = "LookupError: history with sprint"

----------------------------------------------------------------------------
(* Writes that fail part way, and save against update *)

\* C25: when a save of several entries on a keyed collection raises at its
\* k-th entry, the caller gets the exception, the entries 1..k-1 are stored
\* (each one unless a later one of them has its key) and nothing of the
\* entries k..n is: every stored document is one of the first k-1 entries or
\* was stored before the call.
C25_PartialSaveStays ==
    [][(/\ Keyed /\ now' = now
        /\ call'.op = "save" /\ Len(call'.batch) > 1 /\ failed_at' # 0)
       => LET batch == call'.batch
              k == failed_at'
              WrittenAs(d, i) == Strip(d) = batch[i] /\ d.storage_time = now
          IN  /\ res' # "ok"
              /\ \A i \in 1..(k - 1) :
                    \/ \E n \in 1..Len(coll') : WrittenAs(coll'[n], i)
                    \/ \E j \in (i + 1)..(k - 1) : KeyOf(batch[j]) = KeyOf(batch[i])
              /\ \A n \in 1..Len(coll') :
                    \/ ~cfg.clear_before_add /\ coll'[n] \in Range(coll)
                    \/ \E i \in 1..(k - 1) : WrittenAs(coll'[n], i)]_vars

\* A save has raised at its second entry and the first one is stored.
C25_Witness ==
    /\ Keyed /\ call.op = "save" /\ failed_at = 2 /\ res # "ok"
    /\ \E n \in 1..Len(coll) :
          Strip(coll[n]) = call.batch[1] /\ coll[n].storage_time = call.at

\* C26: on a keyed collection that is not cleared before a save, update and
\* save leave the same stored entries, whatever the collection holds, whatever
\* the unique key is named and whatever batch is written.
C26_UpdateIsSave ==
    (Keyed /\ ~cfg.clear_before_add) =>
        \A b \in BatchesOf(cfg) \ {<<>>} :
            LET docs == decorate_data(Staged(b), now)
            IN  Range(UpdateWrites(coll, docs).c) = Range(SaveWrites(coll, docs).c)

\* C30: a load leaves the caller's query dict as it was passed, and so every
\* load, also one that is handed the dict of an earlier load, returns only
\* entries that are within the ttl at the time of that load.
C30_QueryObjectUntouched ==
    [][(now' = now /\ call'.op = "load")
       => /\ query_object' = call'.query
          /\ \A n \in 1..Len(data') : data'[n].storage_time >= now - cfg.ttl]_vars

----------------------------------------------------------------------------
(* execute_jql: hits and misses *)

\* The stored result sets of a jql that are within the ttl now.
Cached(jql) ==
    {n \in 1..Len(coll) : /\ coll[n].key = Md5(jql)
                          /\ coll[n].storage_time >= now - JqlTtl}

\* The step in which a request that missed gets its answer from Jira.
Answered == request.pc = "miss" /\ request'.pc = "done"

\* C21: a request that finds a result set of its jql within the ttl returns
\* the data of that cached entry; Jira is not searched and the collection is
\* not written during the request.
C21_HitReturnsCached ==
    [][(/\ request.pc = "done" /\ now' = now /\ jira' = jira
        /\ call'.op = "load" /\ call'.query.key = <<Md5(request'.jql)>>
        /\ Cached(request'.jql) # {})
       => /\ request'.pc = "done"
          /\ request'.searched = 0
          /\ \E n \in Cached(request'.jql) : request'.returned = coll[n].data
          /\ coll' = coll]_vars

\* A request was a hit although Jira has other issues by now.
C21_Witness ==
    /\ request.pc = "done" /\ request.searched = 0 /\ call.op = "load"
    /\ request.returned # NotReturned
    /\ jira[request.jql] # request.returned

\* C22 as stated: a request that misses searches Jira, stores the result under
\* its key and returns it; the same request made again within the ttl, with
\* nothing written in between, is a hit with the same data and no search.
C22_MissFetchesAndCaches ==
    /\ [][Answered
          => /\ request'.searched = 1
             /\ request'.returned = jira[request.jql]
             /\ \E n \in 1..Len(coll') :
                   /\ coll'[n].key = Md5(request.jql)
                   /\ coll'[n].data = request'.returned
                   /\ coll'[n].storage_time = now]_vars
    /\ [][(/\ request.pc = "done" /\ request.searched = 1
           /\ request'.jql = request.jql /\ request'.at <= request.at + JqlTtl
           /\ now' = now /\ jira' = jira /\ call'.op = "load")
          => /\ request'.pc = "done"
             /\ request'.searched = 0
             /\ request'.returned = request.returned]_vars

\* C22 as the code has it: the result is stored only when it has fewer than
\* 100 issues, and only then is the next request a hit.
C22_MissFetchesAndCachesShort ==
    /\ [][Answered
          => /\ request'.searched = 1
             /\ request'.returned = jira[request.jql]
             /\ request'.returned.len < CacheableBelow
                  => \E n \in 1..Len(coll') :
                        /\ coll'[n].key = Md5(request.jql)
                        /\ coll'[n].data = request'.returned
                        /\ coll'[n].storage_time = now]_vars
    /\ [][(/\ request.pc = "done" /\ request.searched = 1
           /\ request.returned.len < CacheableBelow
           /\ request'.jql = request.jql /\ request'.at <= request.at + JqlTtl
           /\ now' = now /\ jira' = jira /\ call'.op = "load")
          => /\ request'.pc = "done"
             /\ request'.searched = 0
             /\ request'.returned = request.returned]_vars

\* A request that missed and stored its result is followed, at the end of
\* the ttl, by a hit with that result while Jira has other issues.
C22_Witness ==
    /\ request.pc = "done" /\ request.searched = 0 /\ call.op = "load"
    /\ request.returned.len = CacheableBelow - 1
    /\ \E n \in 1..Len(coll) :
          /\ coll[n].key = Md5(request.jql)
          /\ coll[n].data = request.returned
          /\ request.at = coll[n].storage_time + JqlTtl
    /\ jira[request.jql] # request.returned

----------------------------------------------------------------------------
(* The sprint fetcher and the sprint lookup *)

\* C23: what a fetcher made with force_update = true returns for a sprint is
\* what sprint_info gave it during that request, never an entry that was in
\* the cache before, closed sprint or not.
C23_ForcedIsFresh ==
    \A p \in Procs :
        (flows[p].pc = "done" /\ flows[p].force_update /\ flows[p].returned # NoStats)
        => /\ flows[p].sprint_ob # NoSprintOb
           /\ flows[p].returned.team_sprint_data = flows[p].sprint_ob

\* The stored entries of a key.
EntriesOf(c, k) == {n \in 1..Len(c) : c[n].sprint_id = k}

\* C24: when two requests for the same sprint both find nothing usable in the
\* cache, both ask Jira and both update, then in whatever order their steps
\* come each update succeeds and leaves exactly one entry of the key, with the
\* data of that update: in the end the data of the update that came last.
C24_LastWriteWins ==
    [][\A p \in Procs :
          (flows[p].pc = "update" /\ flows'[p].pc = "done")
          => /\ flows'[p].raised = "none"
             /\ Cardinality(EntriesOf(coll', flows[p].sprint_id)) = 1
             /\ \A n \in EntriesOf(coll', flows[p].sprint_id) :
                   coll'[n].team_sprint_data = flows[p].sprint_ob]_vars

\* Both requests are done for the same key; the first asked Jira after the
\* second did and wrote before it: the entry has the older data of the second.
C24_Witness ==
    /\ \A p \in Procs : flows[p].pc = "done" /\ flows[p].raised = "none"
    /\ flows[1].sprint_id = flows[2].sprint_id
    /\ flows[1].sprint_ob.rev = 2 /\ flows[2].sprint_ob.rev = 1
    /\ flows[1].returned.team_sprint_data.rev = 2
    /\ \E n \in EntriesOf(coll, flows[1].sprint_id) : coll[n].team_sprint_data.rev = 1

\* Whether the list has no sprint for the sprint_id that was asked for.
NoneQualifies(list, sprint_id) ==
    CASE sprint_id = AsId(SPRINT_CURRENT) ->
            \A i \in 1..Len(list) : list[i].state # "ACTIVE"
      [] sprint_id = AsId(SPRINT_LAST_COMPLETED) ->
            \A i \in 1..Len(list) :
                list[i].state # "CLOSED" /\ ~(list[i].state = "ACTIVE" /\ list[i].overdue)
      [] sprint_id = AsId(SPRINT_BEFORE_LAST_COMPLETED) ->
            Cardinality({i \in 1..Len(list) : list[i].state = "CLOSED"}) < 2
      [] OTHER -> \A i \in 1..Len(list) : list[i].id # sprint_id.id

\* C29: a lookup by a SPRINT_XXX constant or by an id for which the team has
\* no sprint raises the sprint-not-found exception.
C29_NotFoundRaises ==
    (/\ lookup # NotLookedUp
     /\ lookup.sprint_id.dict = NoSprint
     /\ NoneQualifies(sprints, lookup.sprint_id))
    => lookup.raised = "TeamSprintNotFoundException"

----------------------------------------------------------------------------
(* The default context and Workflow.is_resolved *)

\* C27: get_default_context returns the context that was passed to the last
\* set_default_context, its group and its workflow, and no call of the api
\* other than set_default_context changes the default context.
C27_DefaultContextIsLastSet ==
    /\ [](got.op = "get" => /\ got.returned = got.passed
                            /\ got.returned.group = got.passed.group
                            /\ got.returned.workflow = got.passed.workflow)
    /\ [][got'.op # "set" => context' = context]_vars

\* A context was set, cache_data has stored a document, and the context set
\* last was returned.
C27_Witness ==
    /\ got.op = "get"
    /\ got.returned = AugurContext(2)
    /\ got.returned = context
    /\ coll # <<>>

\* The statuses and the resolutions of the workflow with the given name.
StatusesNamed(name) ==
    {i \in 1..Len(workflow.statuses) : Lower(workflow.statuses[i].name) = Lower(name)}

ResolutionsNamed(name) ==
    {i \in 1..Len(workflow.resolutions) :
        Lower(workflow.resolutions[i].name) = Lower(name)}

\* C28: is_resolved is False when the workflow has no status or no resolution
\* of the given name, and it is True only for a status of type done with a
\* resolution of type positive.
C28_ResolvedNeedsBoth ==
    resolved # NotResolved =>
        /\ (StatusesNamed(resolved.status) = {}
            \/ ResolutionsNamed(resolved.resolution) = {}) => ~resolved.result
        /\ resolved.result =>
              /\ \E i \in StatusesNamed(resolved.status) :
                    Lower(workflow.statuses[i].type) = "done"
              /\ \E j \in ResolutionsNamed(resolved.resolution) :
                    Lower(workflow.resolutions[j].type) = "positive"

----------------------------------------------------------------------------
(* The refused save *)

\* C40: a save that is refused for want of data leaves the collection as it
\* was, with clear_before_add too: the test for data comes before the
\* clearing.
C40_RefusedSaveClearsNothing ==
    [][(/\ now' = now
        /\ call'.op = "save"
        /\ res' = "ValueError: No data found to save")
       => coll' = coll]_vars

\* A save was refused on a collection that has entries and is cleared before
\* every addition.
C40_Witness ==
    /\ call.op = "save"
    /\ res = "ValueError: No data found to save"
    /\ cfg.clear_before_add
    /\ coll # <<>>

----------------------------------------------------------------------------
(* The result cache *)

\* The stored entries of the result cache under a key.
UnderKey(c, key) == {n \in 1..Len(c) : c[n].key = key}

\* C39: with one save_with_key after the other, the result cache never has
\* two entries of a key; after a save_with_key the one entry of its key has
\* the document of that call, and the entries of the other keys are as they
\* were.
C39_OneEntryPerKey ==
    /\ [](\A jql \in Jqls : Cardinality(UnderKey(coll, Md5(jql))) <= 1)
    /\ [][(now' = now /\ call'.op = "save")
          => LET key == call'.batch[1].key
             IN  /\ Cardinality(UnderKey(coll', key)) = 1
                 /\ \A n \in UnderKey(coll', key) : coll'[n].data = call'.batch[1].data
                 /\ SelectSeq(coll', LAMBDA d : d.key # key)
                       = SelectSeq(coll, LAMBDA d : d.key # key)]_vars

\* A key was stored a second time, with another document, next to an entry of
\* another key, and the entry of the key has the second document.
C39_Witness ==
    /\ call.op = "save"
    /\ Len(coll) = 2
    /\ \E n \in UnderKey(coll, call.batch[1].key) :
          /\ coll[n].data = call.batch[1].data
          /\ coll[n].data.rev = 2
          /\ coll[n].storage_time > 0
    /\ \E m \in 1..Len(coll) : coll[m].key # call.batch[1].key /\ coll[m].data.rev = 1

----------------------------------------------------------------------------
(* UaGithubDevStats and execute_jql_with_analysis *)

\* The averages and the highest counts that as_dict reports.
Figures(r) ==
    <<r.avg_changed_files_per_pr, r.avg_comments_per_pr,
      r.highest_changes_in_pr, r.highest_comments_in_pr,
      r.avg_length_of_time_pr_was_open>>

\* C38: whenever as_dict is called, among add_pr calls in any order, the two
\* averages it reports are the totals over the recorded pull requests divided
\* by their number; and an as_dict right after an as_dict reports the same
\* values.
C38_AveragesAreTotalsByCount ==
    /\ []((reported.calls >= 1 /\ reported.prs # <<>>)
          => LET n == Len(reported.prs)
                 files == [i \in 1..n |-> reported.prs[i].changed_files]
                 comments == [i \in 1..n |-> reported.prs[i].review_comments
                                              + reported.prs[i].comments]
             IN  /\ reported.avg_changed_files_per_pr = SumOf(files) \div n
                 /\ reported.avg_comments_per_pr = SumOf(comments) \div n)
    /\ [][(reported.calls >= 1 /\ reported'.calls >= 1)
          => Figures(reported') = Figures(reported)]_vars

\* The entries of developer_stats summed for one of the three figures.
RECURSIVE OverDevelopers(_, _, _)
OverDevelopers(stats, names, figure) ==
    IF names = {} THEN 0
    ELSE LET a == CHOOSE x \in names : TRUE
         IN  stats[a][figure] + OverDevelopers(stats, names \ {a}, figure)

\* The points of the issues that belong to one of the three figures.
PointsOf(list, figure) ==
    SumOf([i \in 1..Len(list) |->
             LET done == is_resolved(list[i].status, list[i].resolution)
                 dropped == is_abandoned(list[i].status, list[i].resolution)
                 own == IF done THEN "complete"
                        ELSE IF dropped THEN "abandoned" ELSE "incomplete"
             IN  IF own = figure THEN list[i].points ELSE 0])

\* C37: in the result of execute_jql_with_analysis the points of every issue
\* are in one of complete, incomplete and abandoned, and each of the three is
\* what the entries of developer_stats add up to, also with a '.' in the name
\* of an assignee.
C37_DevelopersAddUp ==
    analysis # NotAnalysed =>
        \A figure \in {"complete", "incomplete", "abandoned"} :
            /\ analysis[figure] = PointsOf(issues, figure)
            /\ OverDevelopers(analysis.developer_stats,
                              DOMAIN analysis.developer_stats, figure) = analysis[figure]

----------------------------------------------------------------------------
(* The derived field of the aggregator *)

\* C36: an aggregation that returns has set pointsAddedDuringSprintSum of
\* every snapshot to the points of its added issues, an issue without points
\* or with null points as 0 and an empty list as 0, and that number is the
\* actual value of the field in the record of the sprint.
C36_AddedPointsDerived ==
    (Aggregated /\ aggregate_data.err = "ok")
        => /\ \A i \in 1..Len(given) :
                 sprint_data[i].contents.pointsAddedDuringSprintSum
                    = <<AddedPoints(given[i].contents.issueKeysAddedDuringSprint)>>
           /\ \A i \in 1..Len(Asc) :
                 i = LastOfId(i)
                    => aggregate_data.recs[Asc[i].sprint.id].pointsAddedDuringSprintSum.actual
                          = AddedPoints(Asc[i].contents.issueKeysAddedDuringSprint)

\* Two snapshots were aggregated: one with an added issue of 3 points and one
\* without points, one with no added issue.
C36_Witness ==
    /\ Aggregated /\ aggregate_data.err = "ok"
    /\ Len(given) = 2
    /\ given[1].contents.issueKeysAddedDuringSprint = << <<>>, <<3>> >>
    /\ given[2].contents.issueKeysAddedDuringSprint = <<>>
    /\ given[1].contents.pointsAddedDuringSprintSum = <<>>
    /\ sprint_data[1].contents.pointsAddedDuringSprintSum = <<3>>
    /\ sprint_data[2].contents.pointsAddedDuringSprintSum = <<0>>

----------------------------------------------------------------------------
(* The order of a history *)

\* C33: what the aggregator is given in history mode is the list of the
\* sprints by end date, latest first, and the ids it emits are the ids of
\* that list from its end to its start: with end dates that all differ they
\* are in the order of the end dates, earliest first.
C33_HistoryAscendingByEndDate ==
    [][(aggregate_data = NotAggregated /\ aggregate_data' # NotAggregated)
       => LET n == Len(sprint_data)
          IN  /\ Len(given') = n
              /\ \E q \in [1..n -> 1..n] :
                    /\ \A i, j \in 1..n : i # j => q[i] # q[j]
                    /\ \A i \in 1..n : given'[i] = sprint_data[q[i]]
              /\ \A i, j \in 1..n :
                    i < j => given'[i].sprint.endDate >= given'[j].sprint.endDate
              /\ aggregate_data'.err = "ok"
              /\ aggregate_data'.asc_order = [i \in 1..n |-> given'[n + 1 - i].sprint.id]
              /\ (\A i, j \in 1..n :
                     i # j => sprint_data[i].sprint.endDate # sprint_data[j].sprint.endDate)
                 => \A i, j \in 1..n :
                       i < j => \E a, b \in 1..n :
                                   /\ sprint_data[a].sprint.id = aggregate_data'.asc_order[i]
                                   /\ sprint_data[b].sprint.id = aggregate_data'.asc_order[j]
                                   /\ sprint_data[a].sprint.endDate
                                         < sprint_data[b].sprint.endDate]_vars

\* Three sprints with end dates that differ and ids that do not follow them
\* were aggregated, and the ids came out by end date.
C33_Witness ==
    /\ Aggregated /\ aggregate_data.err = "ok"
    /\ Len(given) = 3
    /\ [i \in 1..3 |-> given[i].sprint.endDate] = <<3, 2, 1>>
    /\ [i \in 1..3 |-> given[i].sprint.id] = <<1, 3, 2>>
    /\ aggregate_data.asc_order = <<2, 3, 1>>

----------------------------------------------------------------------------
(* The last completed sprint *)

\* The sprints that count as completed: closed, or active and overdue.
Completed(list) ==
    {i \in 1..Len(list) :
        \/ list[i].state = "CLOSED"
        \/ list[i].state = "ACTIVE" /\ list[i].overdue}

\* C34: the lookup of SPRINT_LAST_COMPLETED returns, of the sprints that are
\* closed or active and overdue, the one of the highest sequence, and None
\* when there is no such sprint; it never returns a future sprint or an
\* active one that is not overdue.
C34_LastCompletedIsFirstQualifying ==
    lookup.sprint_id = AsId(SPRINT_LAST_COMPLETED)
        => IF Completed(sprints) = {} THEN lookup.sprint = NoSprint
           ELSE \E i \in Completed(sprints) :
                   /\ lookup.sprint = sprints[i]
                   /\ \A j \in Completed(sprints) : sprints[j].sequence <= sprints[i].sequence

----------------------------------------------------------------------------
(* The cache of closed sprints *)

\* The entries of the cache that hold the sprint of the given id as closed.
ClosedEntries(c, id) ==
    {n \in 1..Len(c) : c[n].team_sprint_data.id = id
                       /\ c[n].team_sprint_data.state = "CLOSED"}

\* A request has asked the cache and goes on or returns.
Asked(p) == flows[p].pc = "load" /\ flows'[p].pc # "load"

\* C31: once a closed sprint is in the cache, a request for that sprint, by
\* its id or by a SPRINT_XXX constant that stands for it, returns the entry
\* of the cache and sprint_info is not called.
C31_ClosedSprintServedFromCache ==
    [][\A p \in Procs :
          (Asked(p) /\ ClosedEntries(coll, flows[p].sprint_abridged.id) # {})
          => /\ flows'[p].pc = "done"
             /\ \E n \in ClosedEntries(coll, flows[p].sprint_abridged.id) :
                   flows'[p].returned = TeamStats(coll[n])]_vars

\* C32: a request returns an entry of the cache only if the sprint in it is
\* closed; with another entry or none it goes on to sprint_info, and what it
\* then returns it has written with update() in the step that returns it.
C32_OnlyClosedFromCache ==
    [][\A p \in Procs :
          /\ (Asked(p) /\ flows'[p].pc = "done")
             => /\ data' # <<>>
                /\ flows'[p].returned = TeamStats(data'[1])
                /\ flows'[p].returned.team_sprint_data.state = "CLOSED"
          /\ (Asked(p) /\ (data' = <<>> \/ data'[1].team_sprint_data.state # "CLOSED"))
             => flows'[p].pc = "fetch"
          /\ (flows[p].pc = "update" /\ flows'[p].pc = "done")
             => /\ res' = "ok"
                /\ flows'[p].returned.team_sprint_data = flows[p].sprint_ob
                /\ \E n \in 1..Len(coll') :
                      /\ TeamStats(coll'[n]) = flows'[p].returned
                      /\ coll'[n].storage_time = now]_vars

\* A request found the sprint in the cache as active, has asked sprint_info
\* all the same and has newer contents to write.
C32_Witness ==
    \E p \in Procs :
        /\ flows[p].pc = "update"
        /\ data # <<>>
        /\ data[1].sprint_id = flows[p].sprint_abridged.id
        /\ data[1].team_sprint_data.state = "ACTIVE"
        /\ data[1].team_sprint_data.rev = 1
        /\ flows[p].sprint_ob.rev = 2

----------------------------------------------------------------------------
(* The settings of execute_jql *)

\* C35: what execute_jql returns is the result of a search with the
\* include_changelog and the max_results of the call, whatever the calls
\* before it were.
C35_IssuesOfThisCall ==
    (request.pc = "done" /\ request.returned # NotReturned)
    => \E found \in Results :
          request.returned =
              Searched(found, Expanded(request.expand, request.include_changelog),
                       request.max_results)

====
